---- MODULE Spec2Model ----
(***************************************************************************)
(* Model of the cast statistics engine (StatsEventSubscriber and its      *)
(* SimpleHistogram) and of the wire frame-id resolver (FrameIdWrapHelper). *)
(*                                                                         *)
(* Time: base::TimeTicks and base::TimeDelta are 64-bit microsecond        *)
(* counts.  A TimeTicks is an integer; TimeTicks() (the null value) is 0   *)
(* and is_null() is "= 0".                                                 *)
(***************************************************************************)
EXTENDS Integers, Sequences, FiniteSets, TLC

(***************************************************************************)
(* Bounds of the model.  The two cache capacities are the program's        *)
(* constants scaled down so that a cache fills within a few events.        *)
(***************************************************************************)
\* capacity used for kMaxFrameInfoMapSize
MaxFrameCache == 3
\* capacity used for kMaxPacketEventTimeMapSize (1000 in the source)
MaxPacketCache == 2
\* calls made to the engine in one behaviour of a cache specification
MaxCalls == 5
\* wraps of the wire value counted by the resolver in one behaviour
MaxWraps == 2
\* calls made to the engine in one behaviour of the packet specification
MaxPacketCalls == 4
\* calls made to the engine in one behaviour of the frame specification
MaxFrameCalls == 4
\* calls made to a histogram in one behaviour of the histogram specification
MaxHistogramCalls == 3
\* calls made to the engine in one behaviour of the snapshot specification
MaxSnapshotCalls == 4

\* calls made to the engine in TimelineSpec
MaxTimelineCalls == 4

\* calls made to the engine in CaptureSpec
MaxCaptureCalls == 5

\* the last frame id of a reordered stream
MaxFrameId == 340

\* the most positions a sample of a reordered stream is displaced by
MaxDisplacement == 63

\* the samples of a reordered stream that arrive early, overtaking others
MaxEarly == 2

kMaxFrameInfoMapSize == MaxFrameCache

kMaxPacketEventTimeMapSize == MaxPacketCache

kMaxLatencyBucketMs == 800

kBucketWidthMs == 20

\* The null TimeTicks, TimeTicks().
NullTicks == 0

is_null(t) == t = NullTicks

AUDIO_EVENT == "AUDIO_EVENT"

VIDEO_EVENT == "VIDEO_EVENT"

FRAME_CAPTURE_BEGIN == "FRAME_CAPTURE_BEGIN"

FRAME_CAPTURE_END == "FRAME_CAPTURE_END"

FRAME_ENCODED == "FRAME_ENCODED"

FRAME_ACK_SENT == "FRAME_ACK_SENT"

FRAME_DECODED == "FRAME_DECODED"

FRAME_PLAYOUT == "FRAME_PLAYOUT"

PACKET_SENT_TO_NETWORK == "PACKET_SENT_TO_NETWORK"

PACKET_RETRANSMITTED == "PACKET_RETRANSMITTED"

PACKET_RTX_REJECTED == "PACKET_RTX_REJECTED"

PACKET_RECEIVED == "PACKET_RECEIVED"

CAPTURE_LATENCY_MS_HISTO == "CAPTURE_LATENCY_MS_HISTO"

ENCODE_LATENCY_MS_HISTO == "ENCODE_LATENCY_MS_HISTO"

PACKET_LATENCY_MS_HISTO == "PACKET_LATENCY_MS_HISTO"

FRAME_LATENCY_MS_HISTO == "FRAME_LATENCY_MS_HISTO"

PLAYOUT_DELAY_MS_HISTO == "PLAYOUT_DELAY_MS_HISTO"

HistogramNames == {CAPTURE_LATENCY_MS_HISTO, ENCODE_LATENCY_MS_HISTO, PACKET_LATENCY_MS_HISTO, FRAME_LATENCY_MS_HISTO, PLAYOUT_DELAY_MS_HISTO}

\* What GetReceiverOffsetBounds answers: ok is its return value, lower and
\* upper the bounds it writes when ok.
NoBounds == [ok |-> FALSE, lower |-> 0, upper |-> 0]

Bounds(lower, upper) == [ok |-> TRUE, lower |-> lower, upper |-> upper]

VARIABLES
  \* StatsEventSubscriber
  event_media_type_,
  frame_stats_,
  packet_stats_,
  total_network_latency_,
  network_latency_datapoints_,
  total_e2e_latency_,
  e2e_latency_datapoints_,
  num_frames_dropped_by_encoder_,
  num_frames_late_,
  recent_frame_infos_,
  packet_sent_times_,
  start_time_,
  last_response_received_time_,
  first_event_time_,
  last_event_time_,
  histograms_,
  \* FrameIdWrapHelper
  first_,
  frame_id_wrap_count_,
  range_,
  \* observation of the run: the last call, the state it was made in, and
  \* what has been seen since construction or Reset
  last,
  pre,
  ncalls,
  capture_run,
  packet_last_type,
  retransmitted_keys,
  history,
  resolver_last,
  stream,
  reorder,
  \* a SimpleHistogram on its own, and the last call made to it
  histogram,
  histogram_last,
  \* the arguments and the outcome of the histogram's construction
  construction,
  \* the last snapshot GetStats returned
  snapshot

engineVars == <<event_media_type_, frame_stats_, packet_stats_, total_network_latency_, network_latency_datapoints_, total_e2e_latency_, e2e_latency_datapoints_, num_frames_dropped_by_encoder_, num_frames_late_, recent_frame_infos_, packet_sent_times_, start_time_, last_response_received_time_, first_event_time_, last_event_time_, histograms_>>

resolverVars == <<first_, frame_id_wrap_count_, range_>>

engineObs == <<last, pre, ncalls, capture_run, packet_last_type, retransmitted_keys, history>>

resolverObs == <<resolver_last, stream, reorder>>

histogramVars == <<histogram, histogram_last, construction>>

vars == <<engineVars, resolverVars, engineObs, resolverObs, histogramVars, snapshot>>

(***************************************************************************)
(* Ordered maps.  A std::map is a function whose DOMAIN is its key set;    *)
(* begin() is the entry with the least key.                                *)
(***************************************************************************)
EmptyMap == <<>>

MapPut(m, k, v) == [x \in (DOMAIN m) \cup {k} |-> IF x = k THEN v ELSE m[x]]

\* std::map::insert: an existing key keeps its value.
MapInsert(m, k, v) == IF k \in DOMAIN m THEN m ELSE MapPut(m, k, v)

MapErase(m, k) == [x \in (DOMAIN m) \ {k} |-> m[x]]

\* operator< of RtpTimestamp (uint32)
RtpLess(a, b) == a < b

\* operator< of std::pair<RtpTimestamp, uint16>: lexicographic
KeyLess(a, b) == a[1] < b[1] \/ (a[1] = b[1] /\ a[2] < b[2])

\* a faulty begin(): the entry with the greatest key
FrameInfosBeginGreatest(m) == CHOOSE k \in DOMAIN m : \A x \in DOMAIN m : x = k \/ RtpLess(x, k)

FrameInfosBegin(m) == CHOOSE k \in DOMAIN m : \A x \in DOMAIN m : x = k \/ RtpLess(k, x)

\* a faulty begin(): the entry with the greatest key
PacketTimesBeginGreatest(m) == CHOOSE k \in DOMAIN m : \A x \in DOMAIN m : x = k \/ KeyLess(x, k)

PacketTimesBegin(m) == CHOOSE k \in DOMAIN m : \A x \in DOMAIN m : x = k \/ KeyLess(k, x)

(***************************************************************************)
(* SimpleHistogram                                                         *)
(***************************************************************************)
\* int64 division: the quotient is truncated toward zero
Int64Div(a, b) == IF (a >= 0) = (b > 0) THEN (IF a >= 0 THEN a \div b ELSE (-a) \div (-b)) ELSE (IF a >= 0 THEN -(a \div (-b)) ELSE -((-a) \div b))

\* a faulty conversion: the microseconds are passed on as they are
InMillisecondsFNotScaled(delta) == delta

\* TimeDelta::InMillisecondsF() passed to Add(int64): the double is
\* converted to int64, which drops the fraction (toward zero).
InMillisecondsF(delta) == Int64Div(delta, 1000)

\* a % b on int64: the remainder has the sign of a
Int64Rem(a, b) == a - b * Int64Div(a, b)

\* How the constructor can end.  With width = 0 the division in the
\* initializer of buckets_ is undefined: the build either traps or goes on
\* with a quotient of 0, and then fails CHECK_GT.  A negative bucket count
\* becomes a size_t no vector can be allocated with.
SimpleHistogramOutcomes(min, max, width) ==
  IF width = 0 THEN {"crash", "check_failure"}
  ELSE IF Int64Div(max - min, width) + 2 < 0 THEN {"crash"}
  ELSE IF ~(Int64Div(max - min, width) + 2 > 2) THEN {"check_failure"}
  ELSE IF Int64Rem(max - min, width) # 0 THEN {"check_failure"}
  ELSE {"constructed"}

SimpleHistogram(min, max, width) == [min_ |-> min, max_ |-> max, width_ |-> width, buckets_ |-> [i \in 1..(Int64Div(max - min, width) + 2) |-> 0]]

\* a faulty Add: a sample below min_ goes to the first bucket of the range
HistogramIndexNoUnderflow(h, sample) == IF sample < h.min_ THEN 1 ELSE IF sample >= h.max_ THEN Len(h.buckets_) - 1 ELSE 1 + Int64Div(sample - h.min_, h.width_)

\* buckets_ is indexed from 1 here: bucket i of the source is buckets_[i + 1]
HistogramIndex(h, sample) == IF sample < h.min_ THEN 0 ELSE IF sample >= h.max_ THEN Len(h.buckets_) - 1 ELSE 1 + Int64Div(sample - h.min_, h.width_)

\* a faulty Add: the bucket is incremented twice
HistogramAddTwice(h, sample) == [h EXCEPT !.buckets_[HistogramIndex(h, sample) + 1] = @ + 2]

HistogramAdd(h, sample) == [h EXCEPT !.buckets_[HistogramIndex(h, sample) + 1] = @ + 1]

\* a faulty Reset: the counts are kept
HistogramResetKept(h) == h

HistogramReset(h) == [h EXCEPT !.buckets_ = [i \in 1..Len(h.buckets_) |-> 0]]

InitHistograms == [n \in HistogramNames |-> SimpleHistogram(0, kMaxLatencyBucketMs, kBucketWidthMs)]

(***************************************************************************)
(* StatsEventSubscriber: helpers                                           *)
(***************************************************************************)
IsReceiverEvent(event) == event \in {FRAME_DECODED, FRAME_PLAYOUT, FRAME_ACK_SENT, PACKET_RECEIVED}

\* a faulty GetReceiverOffset: it reports success whatever the estimator says
HasReceiverOffsetAlways(bounds) == TRUE

\* GetReceiverOffset: FALSE when the estimator has no bounds
HasReceiverOffset(bounds) == bounds.ok

\* a faulty GetReceiverOffset: the lower bound is taken for the offset
ReceiverOffsetLower(bounds) == bounds.lower

\* GetReceiverOffset: the midpoint of the estimator's bounds
ReceiverOffset(bounds) == Int64Div(bounds.lower + bounds.upper, 2)

FrameInfo == [capture_time |-> NullTicks, capture_end_time |-> NullTicks, encode_time |-> NullTicks]

\* frame_stats_ after the counting at the head of OnReceiveFrameEvent
CountFrameEvent(stats, ev) == IF ev.type \in DOMAIN stats THEN [stats EXCEPT ![ev.type] = [event_counter |-> @.event_counter + 1, sum_size |-> @.sum_size + ev.size, sum_delay |-> @.sum_delay + ev.delay_delta]] ELSE MapPut(stats, ev.type, [event_counter |-> 1, sum_size |-> ev.size, sum_delay |-> ev.delay_delta])

\* packet_stats_ after the counting at the head of OnReceivePacketEvent
CountPacketEvent(stats, ev) == IF ev.type \in DOMAIN stats THEN [stats EXCEPT ![ev.type] = [event_counter |-> @.event_counter + 1, sum_size |-> @.sum_size + ev.size]] ELSE MapPut(stats, ev.type, [event_counter |-> 1, sum_size |-> ev.size])

Min(a, b) == IF a < b THEN a ELSE b

Max(a, b) == IF a > b THEN a ELSE b

\* a faulty UpdateFirstLastEventTime: a receiver time is not brought into the
\* sender's clock
UpdateFirstLastEventTimeUnadjusted(first, lastt, timestamp, is_receiver_event, bounds) ==
  IF is_receiver_event /\ ~HasReceiverOffset(bounds) THEN <<first, lastt>>
  ELSE <<IF is_null(first) THEN timestamp ELSE Min(first, timestamp), IF is_null(lastt) THEN timestamp ELSE Max(lastt, timestamp)>>

\* UpdateFirstLastEventTime: <<first_event_time_, last_event_time_>> afterwards
UpdateFirstLastEventTime(first, lastt, timestamp, is_receiver_event, bounds) ==
  IF is_receiver_event /\ ~HasReceiverOffset(bounds) THEN <<first, lastt>>
  ELSE LET t == IF is_receiver_event THEN timestamp - ReceiverOffset(bounds) ELSE timestamp
       IN <<IF is_null(first) THEN t ELSE Min(first, t), IF is_null(lastt) THEN t ELSE Max(lastt, t)>>

\* a faulty UpdateLastResponseTime: an earlier response does not replace a
\* later one
UpdateLastResponseTimeLatest(cur, receiver_time, bounds) == IF ~HasReceiverOffset(bounds) THEN cur ELSE Max(cur, receiver_time - ReceiverOffset(bounds))

\* UpdateLastResponseTime: last_response_received_time_ afterwards
UpdateLastResponseTime(cur, receiver_time, bounds) == IF ~HasReceiverOffset(bounds) THEN cur ELSE receiver_time - ReceiverOffset(bounds)

\* a faulty MaybeInsertFrameInfo: every evicted frame is counted as dropped
MaybeInsertFrameInfoCountsAll(infos, dropped, rtp_timestamp, frame_info) ==
  IF Cardinality(DOMAIN infos) = kMaxFrameInfoMapSize /\ RtpLess(rtp_timestamp, FrameInfosBegin(infos))
  THEN [infos |-> infos, dropped |-> dropped]
  ELSE LET inserted == MapInsert(infos, rtp_timestamp, frame_info)
       IN IF Cardinality(DOMAIN inserted) >= kMaxFrameInfoMapSize
          THEN [infos |-> MapErase(inserted, FrameInfosBegin(inserted)), dropped |-> dropped + 1]
          ELSE [infos |-> inserted, dropped |-> dropped]

\* MaybeInsertFrameInfo: [infos, dropped] afterwards
MaybeInsertFrameInfo(infos, dropped, rtp_timestamp, frame_info) ==
  IF Cardinality(DOMAIN infos) = kMaxFrameInfoMapSize /\ RtpLess(rtp_timestamp, FrameInfosBegin(infos))
  THEN [infos |-> infos, dropped |-> dropped]
  ELSE LET inserted == MapInsert(infos, rtp_timestamp, frame_info)
       IN IF Cardinality(DOMAIN inserted) >= kMaxFrameInfoMapSize
          THEN LET erase_it == FrameInfosBegin(inserted)
               IN [infos |-> MapErase(inserted, erase_it), dropped |-> IF is_null(inserted[erase_it].encode_time) THEN dropped + 1 ELSE dropped]
          ELSE [infos |-> inserted, dropped |-> dropped]

(***************************************************************************)
(* StatsEventSubscriber: the per-kind recorders.  Each returns the members *)
(* it may change.                                                          *)
(***************************************************************************)
\* a faulty RecordFrameCaptureTime: the entry of a cached frame is replaced
RecordFrameCaptureTimeReplacing(infos, dropped, frame_event) == MaybeInsertFrameInfo(MapErase(infos, frame_event.rtp_timestamp), dropped, frame_event.rtp_timestamp, [FrameInfo EXCEPT !.capture_time = frame_event.timestamp])

RecordFrameCaptureTime(infos, dropped, frame_event) == MaybeInsertFrameInfo(infos, dropped, frame_event.rtp_timestamp, [FrameInfo EXCEPT !.capture_time = frame_event.timestamp])

\* a faulty RecordCaptureLatency: the sample is capture end minus capture begin
RecordCaptureLatencyEndMinusBegin(infos, histos, frame_event) ==
  IF frame_event.rtp_timestamp \notin DOMAIN infos THEN [infos |-> infos, histos |-> histos]
  ELSE LET it == infos[frame_event.rtp_timestamp]
       IN [infos |-> [infos EXCEPT ![frame_event.rtp_timestamp].capture_end_time = frame_event.timestamp],
           histos |-> IF ~is_null(it.capture_time) THEN [histos EXCEPT ![CAPTURE_LATENCY_MS_HISTO] = HistogramAdd(@, InMillisecondsF(frame_event.timestamp - it.capture_time))] ELSE histos]

\* [infos, histos] afterwards
RecordCaptureLatency(infos, histos, frame_event) ==
  IF frame_event.rtp_timestamp \notin DOMAIN infos THEN [infos |-> infos, histos |-> histos]
  ELSE LET it == infos[frame_event.rtp_timestamp]
       IN [infos |-> [infos EXCEPT ![frame_event.rtp_timestamp].capture_end_time = frame_event.timestamp],
           histos |-> IF ~is_null(it.capture_time) THEN [histos EXCEPT ![CAPTURE_LATENCY_MS_HISTO] = HistogramAdd(@, InMillisecondsF(it.capture_time - frame_event.timestamp))] ELSE histos]

\* a faulty RecordEncodeLatency: the entry created for a frame that is not
\* cached holds no encode time
RecordEncodeLatencyNoTime(infos, dropped, histos, frame_event) ==
  IF frame_event.rtp_timestamp \notin DOMAIN infos
  THEN LET r == MaybeInsertFrameInfo(infos, dropped, frame_event.rtp_timestamp, FrameInfo)
       IN [infos |-> r.infos, dropped |-> r.dropped, histos |-> histos]
  ELSE LET it == infos[frame_event.rtp_timestamp]
       IN [infos |-> [infos EXCEPT ![frame_event.rtp_timestamp].encode_time = frame_event.timestamp],
           dropped |-> dropped,
           histos |-> IF ~is_null(it.capture_end_time) THEN [histos EXCEPT ![ENCODE_LATENCY_MS_HISTO] = HistogramAdd(@, InMillisecondsF(frame_event.timestamp - it.capture_end_time))] ELSE histos]

\* [infos, dropped, histos] afterwards
RecordEncodeLatency(infos, dropped, histos, frame_event) ==
  IF frame_event.rtp_timestamp \notin DOMAIN infos
  THEN LET r == MaybeInsertFrameInfo(infos, dropped, frame_event.rtp_timestamp, [FrameInfo EXCEPT !.encode_time = frame_event.timestamp])
       IN [infos |-> r.infos, dropped |-> r.dropped, histos |-> histos]
  ELSE LET it == infos[frame_event.rtp_timestamp]
       IN [infos |-> [infos EXCEPT ![frame_event.rtp_timestamp].encode_time = frame_event.timestamp],
           dropped |-> dropped,
           histos |-> IF ~is_null(it.capture_end_time) THEN [histos EXCEPT ![ENCODE_LATENCY_MS_HISTO] = HistogramAdd(@, InMillisecondsF(frame_event.timestamp - it.capture_end_time))] ELSE histos]

\* a faulty RecordFrameTxLatency: a frame that was never encoded is sampled
RecordFrameTxLatencyNoEncodeCheck(infos, histos, frame_event, bounds) ==
  IF frame_event.rtp_timestamp \notin DOMAIN infos THEN histos
  ELSE IF ~HasReceiverOffset(bounds) THEN histos
  ELSE LET sender_time == frame_event.timestamp - ReceiverOffset(bounds)
       IN [histos EXCEPT ![FRAME_LATENCY_MS_HISTO] = HistogramAdd(@, InMillisecondsF(sender_time - infos[frame_event.rtp_timestamp].encode_time))]

\* histograms_ afterwards
RecordFrameTxLatency(infos, histos, frame_event, bounds) ==
  IF frame_event.rtp_timestamp \notin DOMAIN infos THEN histos
  ELSE IF is_null(infos[frame_event.rtp_timestamp].encode_time) THEN histos
  ELSE IF ~HasReceiverOffset(bounds) THEN histos
  ELSE LET sender_time == frame_event.timestamp - ReceiverOffset(bounds)
       IN [histos EXCEPT ![FRAME_LATENCY_MS_HISTO] = HistogramAdd(@, InMillisecondsF(sender_time - infos[frame_event.rtp_timestamp].encode_time))]

\* a faulty RecordE2ELatency: a frame without an entry is credited as well
RecordE2ELatencyNoFind(infos, total, datapoints, frame_event, bounds) ==
  IF ~HasReceiverOffset(bounds) THEN [total |-> total, datapoints |-> datapoints]
  ELSE LET playout_time == frame_event.timestamp + frame_event.delay_delta - ReceiverOffset(bounds)
           capture_time == IF frame_event.rtp_timestamp \in DOMAIN infos THEN infos[frame_event.rtp_timestamp].capture_time ELSE NullTicks
       IN [total |-> total + (playout_time - capture_time), datapoints |-> datapoints + 1]

\* [total, datapoints] afterwards
RecordE2ELatency(infos, total, datapoints, frame_event, bounds) ==
  IF ~HasReceiverOffset(bounds) THEN [total |-> total, datapoints |-> datapoints]
  ELSE IF frame_event.rtp_timestamp \notin DOMAIN infos THEN [total |-> total, datapoints |-> datapoints]
  ELSE LET playout_time == frame_event.timestamp + frame_event.delay_delta - ReceiverOffset(bounds)
       IN [total |-> total + (playout_time - infos[frame_event.rtp_timestamp].capture_time), datapoints |-> datapoints + 1]

PacketKey(packet_event) == <<packet_event.rtp_timestamp, packet_event.packet_id>>

\* a faulty ErasePacketSentTime: the entry is kept
ErasePacketSentTimeKept(times, packet_event) == times

\* packet_sent_times_ afterwards
ErasePacketSentTime(times, packet_event) == MapErase(times, PacketKey(packet_event))

\* RecordNetworkLatency, no entry for the key: the insert and the eviction
StorePacketTime(times, packet_event) ==
  LET inserted == MapPut(times, PacketKey(packet_event), <<packet_event.timestamp, packet_event.type>>)
  IN IF Cardinality(DOMAIN inserted) > kMaxPacketEventTimeMapSize THEN MapErase(inserted, PacketTimesBegin(inserted)) ELSE inserted

\* a faulty match: the branch for a received event recorded first is missing
MatchPacketTimesSentFirstOnly(value, packet_event) ==
  IF value[2] = PACKET_SENT_TO_NETWORK /\ packet_event.type = PACKET_RECEIVED
  THEN [match |-> TRUE, packet_sent_time |-> value[1], packet_received_time |-> packet_event.timestamp]
  ELSE [match |-> FALSE, packet_sent_time |-> NullTicks, packet_received_time |-> NullTicks]

\* a faulty match: two events of the same kind pair up as well
MatchPacketTimesAnyKind(value, packet_event) == [match |-> TRUE, packet_sent_time |-> value[1], packet_received_time |-> packet_event.timestamp]

\* RecordNetworkLatency, an entry for the key: whether the recorded and the
\* new event pair up, and the sent and received times if they do
MatchPacketTimes(value, packet_event) ==
  IF value[2] = PACKET_SENT_TO_NETWORK /\ packet_event.type = PACKET_RECEIVED
  THEN [match |-> TRUE, packet_sent_time |-> value[1], packet_received_time |-> packet_event.timestamp]
  ELSE IF value[2] = PACKET_RECEIVED /\ packet_event.type = PACKET_SENT_TO_NETWORK
  THEN [match |-> TRUE, packet_sent_time |-> packet_event.timestamp, packet_received_time |-> value[1]]
  ELSE [match |-> FALSE, packet_sent_time |-> NullTicks, packet_received_time |-> NullTicks]

\* [times, total, datapoints, histos] afterwards
\* a faulty RecordNetworkLatency: the sample goes to the frame-transmission
\* histogram
RecordNetworkLatencyFrameHistogram(times, total, datapoints, histos, packet_event, bounds) ==
  LET same == [times |-> times, total |-> total, datapoints |-> datapoints, histos |-> histos]
      key == PacketKey(packet_event)
  IN IF ~HasReceiverOffset(bounds) THEN same
     ELSE IF key \notin DOMAIN times THEN [same EXCEPT !.times = StorePacketTime(times, packet_event)]
     ELSE LET m == MatchPacketTimes(times[key], packet_event)
              latency_delta == (m.packet_received_time - ReceiverOffset(bounds)) - m.packet_sent_time
          IN IF m.match
             THEN [times |-> MapErase(times, key), total |-> total + latency_delta, datapoints |-> datapoints + 1,
                   histos |-> [histos EXCEPT ![FRAME_LATENCY_MS_HISTO] = HistogramAdd(@, InMillisecondsF(latency_delta))]]
             ELSE same

RecordNetworkLatency(times, total, datapoints, histos, packet_event, bounds) ==
  LET same == [times |-> times, total |-> total, datapoints |-> datapoints, histos |-> histos]
      key == PacketKey(packet_event)
  IN IF ~HasReceiverOffset(bounds) THEN same
     ELSE IF key \notin DOMAIN times THEN [same EXCEPT !.times = StorePacketTime(times, packet_event)]
     ELSE LET m == MatchPacketTimes(times[key], packet_event)
              latency_delta == (m.packet_received_time - ReceiverOffset(bounds)) - m.packet_sent_time
          IN IF m.match
             THEN [times |-> MapErase(times, key), total |-> total + latency_delta, datapoints |-> datapoints + 1,
                   histos |-> [histos EXCEPT ![PACKET_LATENCY_MS_HISTO] = HistogramAdd(@, InMillisecondsF(latency_delta))]]
             ELSE same

(***************************************************************************)
(* StatsEventSubscriber: the public operations.  `bounds` is what the      *)
(* offset estimator answers during the call: the estimator is fed on the   *)
(* same thread, so its answer does not change inside one call.             *)
(***************************************************************************)
EngineInit(media_type, now) ==
  /\ event_media_type_ = media_type
  /\ frame_stats_ = EmptyMap
  /\ packet_stats_ = EmptyMap
  /\ total_network_latency_ = 0
  /\ network_latency_datapoints_ = 0
  /\ total_e2e_latency_ = 0
  /\ e2e_latency_datapoints_ = 0
  /\ num_frames_dropped_by_encoder_ = 0
  /\ num_frames_late_ = 0
  /\ recent_frame_infos_ = EmptyMap
  /\ packet_sent_times_ = EmptyMap
  /\ start_time_ = now
  /\ last_response_received_time_ = NullTicks
  /\ first_event_time_ = NullTicks
  /\ last_event_time_ = NullTicks
  /\ histograms_ = InitHistograms

\* a faulty lateness test: a frame played exactly on time is not late
FramePlayedLateBelowZero(delay_delta) == delay_delta < 0

\* the test that counts a played frame as late
FramePlayedLate(delay_delta) == delay_delta <= 0

OnReceiveFrameEvent(frame_event, bounds) ==
  IF frame_event.media_type # event_media_type_ THEN UNCHANGED engineVars
  ELSE LET type == frame_event.type
           is_receiver_event == IsReceiverEvent(type)
           fl == UpdateFirstLastEventTime(first_event_time_, last_event_time_, frame_event.timestamp, is_receiver_event, bounds)
           cap == RecordFrameCaptureTime(recent_frame_infos_, num_frames_dropped_by_encoder_, frame_event)
           lat == RecordCaptureLatency(recent_frame_infos_, histograms_, frame_event)
           enc == RecordEncodeLatency(recent_frame_infos_, num_frames_dropped_by_encoder_, histograms_, frame_event)
           tx == RecordFrameTxLatency(recent_frame_infos_, histograms_, frame_event, bounds)
           e2e == RecordE2ELatency(recent_frame_infos_, total_e2e_latency_, e2e_latency_datapoints_, frame_event, bounds)
       IN /\ frame_stats_' = CountFrameEvent(frame_stats_, frame_event)
          /\ first_event_time_' = fl[1]
          /\ last_event_time_' = fl[2]
          /\ recent_frame_infos_' = CASE type = FRAME_CAPTURE_BEGIN -> cap.infos [] type = FRAME_CAPTURE_END -> lat.infos [] type = FRAME_ENCODED -> enc.infos [] OTHER -> recent_frame_infos_
          /\ num_frames_dropped_by_encoder_' = CASE type = FRAME_CAPTURE_BEGIN -> cap.dropped [] type = FRAME_ENCODED -> enc.dropped [] OTHER -> num_frames_dropped_by_encoder_
          /\ histograms_' = CASE type = FRAME_CAPTURE_END -> lat.histos
                              [] type = FRAME_ENCODED -> enc.histos
                              [] type = FRAME_ACK_SENT -> tx
                              [] type = FRAME_PLAYOUT -> [histograms_ EXCEPT ![PLAYOUT_DELAY_MS_HISTO] = HistogramAdd(@, InMillisecondsF(frame_event.delay_delta))]
                              [] OTHER -> histograms_
          /\ total_e2e_latency_' = IF type = FRAME_PLAYOUT THEN e2e.total ELSE total_e2e_latency_
          /\ e2e_latency_datapoints_' = IF type = FRAME_PLAYOUT THEN e2e.datapoints ELSE e2e_latency_datapoints_
          /\ num_frames_late_' = IF type = FRAME_PLAYOUT /\ FramePlayedLate(frame_event.delay_delta) THEN num_frames_late_ + 1 ELSE num_frames_late_
          /\ last_response_received_time_' = IF is_receiver_event THEN UpdateLastResponseTime(last_response_received_time_, frame_event.timestamp, bounds) ELSE last_response_received_time_
          /\ UNCHANGED <<event_media_type_, packet_stats_, total_network_latency_, network_latency_datapoints_, packet_sent_times_, start_time_>>

OnReceivePacketEvent(packet_event, bounds) ==
  IF packet_event.media_type # event_media_type_ THEN UNCHANGED engineVars
  ELSE LET type == packet_event.type
           is_receiver_event == IsReceiverEvent(type)
           fl == UpdateFirstLastEventTime(first_event_time_, last_event_time_, packet_event.timestamp, is_receiver_event, bounds)
           net == RecordNetworkLatency(packet_sent_times_, total_network_latency_, network_latency_datapoints_, histograms_, packet_event, bounds)
           pairing == type \in {PACKET_SENT_TO_NETWORK, PACKET_RECEIVED}
       IN /\ packet_stats_' = CountPacketEvent(packet_stats_, packet_event)
          /\ first_event_time_' = fl[1]
          /\ last_event_time_' = fl[2]
          /\ packet_sent_times_' = IF pairing THEN net.times ELSE IF type = PACKET_RETRANSMITTED THEN ErasePacketSentTime(packet_sent_times_, packet_event) ELSE packet_sent_times_
          /\ total_network_latency_' = IF pairing THEN net.total ELSE total_network_latency_
          /\ network_latency_datapoints_' = IF pairing THEN net.datapoints ELSE network_latency_datapoints_
          /\ histograms_' = IF pairing THEN net.histos ELSE histograms_
          /\ last_response_received_time_' = IF is_receiver_event THEN UpdateLastResponseTime(last_response_received_time_, packet_event.timestamp, bounds) ELSE last_response_received_time_
          /\ UNCHANGED <<event_media_type_, frame_stats_, total_e2e_latency_, e2e_latency_datapoints_, num_frames_dropped_by_encoder_, num_frames_late_, recent_frame_infos_, start_time_>>

(***************************************************************************)
(* StatsEventSubscriber: the snapshot.  A statistic is a double in the     *)
(* source; here it is the exact quotient num/den, kept as the pair, with   *)
(* times in microseconds scaled into the unit the source reports.          *)
(***************************************************************************)
CAPTURE_FPS == "CAPTURE_FPS"

ENCODE_FPS == "ENCODE_FPS"

DECODE_FPS == "DECODE_FPS"

AVG_PLAYOUT_DELAY_MS == "AVG_PLAYOUT_DELAY_MS"

AVG_NETWORK_LATENCY_MS == "AVG_NETWORK_LATENCY_MS"

AVG_E2E_LATENCY_MS == "AVG_E2E_LATENCY_MS"

ENCODE_KBPS == "ENCODE_KBPS"

TRANSMISSION_KBPS == "TRANSMISSION_KBPS"

RETRANSMISSION_KBPS == "RETRANSMISSION_KBPS"

PACKET_LOSS_FRACTION == "PACKET_LOSS_FRACTION"

MS_SINCE_LAST_RECEIVER_RESPONSE == "MS_SINCE_LAST_RECEIVER_RESPONSE"

NUM_FRAMES_CAPTURED == "NUM_FRAMES_CAPTURED"

NUM_FRAMES_DROPPED_BY_ENCODER == "NUM_FRAMES_DROPPED_BY_ENCODER"

NUM_FRAMES_LATE == "NUM_FRAMES_LATE"

NUM_PACKETS_SENT == "NUM_PACKETS_SENT"

NUM_PACKETS_RETRANSMITTED == "NUM_PACKETS_RETRANSMITTED"

NUM_PACKETS_RTX_REJECTED == "NUM_PACKETS_RTX_REJECTED"

FIRST_EVENT_TIME_MS == "FIRST_EVENT_TIME_MS"

LAST_EVENT_TIME_MS == "LAST_EVENT_TIME_MS"

\* base::TimeTicks::UnixEpoch(), on the scale of the model's clock
UnixEpoch == 0

\* the quotient num/den
Ratio(num, den) == [num |-> num, den |-> den]

\* a StatsMap with one entry
OneStat(stat, value) == [x \in {stat} |-> value]

\* stats_map->insert for each entry of more: an entry already there is kept
StatsInsert(stats_map, more) == [x \in (DOMAIN stats_map) \cup (DOMAIN more) |-> IF x \in DOMAIN stats_map THEN stats_map[x] ELSE more[x]]

\* each Populate function returns the entries it inserts
PopulateFpsStat(end_time, event, stat) ==
  IF event \notin DOMAIN frame_stats_ THEN EmptyMap
  ELSE LET duration == end_time - start_time_
       IN OneStat(stat, IF duration > 0 THEN Ratio(frame_stats_[event].event_counter * 1000000, duration) ELSE Ratio(0, 1))

\* a faulty PopulateFrameCountStat: a count of zero is reported as well
PopulateFrameCountStatAlways(event, stat) == IF event \notin DOMAIN frame_stats_ THEN OneStat(stat, Ratio(0, 1)) ELSE OneStat(stat, Ratio(frame_stats_[event].event_counter, 1))

PopulateFrameCountStat(event, stat) == IF event \notin DOMAIN frame_stats_ THEN EmptyMap ELSE OneStat(stat, Ratio(frame_stats_[event].event_counter, 1))

PopulatePacketCountStat(event, stat) == IF event \notin DOMAIN packet_stats_ THEN EmptyMap ELSE OneStat(stat, Ratio(packet_stats_[event].event_counter, 1))

PopulatePlayoutDelayStat ==
  IF FRAME_PLAYOUT \notin DOMAIN frame_stats_ THEN EmptyMap
  ELSE LET count == frame_stats_[FRAME_PLAYOUT].event_counter
       IN OneStat(AVG_PLAYOUT_DELAY_MS, IF count # 0 THEN Ratio(frame_stats_[FRAME_PLAYOUT].sum_delay, 1000 * count) ELSE Ratio(0, 1))

PopulateFrameBitrateStat(end_time) ==
  IF FRAME_ENCODED \notin DOMAIN frame_stats_ THEN EmptyMap
  ELSE LET duration == end_time - start_time_
       IN OneStat(ENCODE_KBPS, IF duration > 0 THEN Ratio(frame_stats_[FRAME_ENCODED].sum_size * 8000, duration) ELSE Ratio(0, 1))

PopulatePacketBitrateStat(end_time, event, stat) ==
  IF event \notin DOMAIN packet_stats_ THEN EmptyMap
  ELSE LET duration == end_time - start_time_
       IN OneStat(stat, IF duration > 0 THEN Ratio(packet_stats_[event].sum_size * 8000, duration) ELSE Ratio(0, 1))

\* a faulty PopulatePacketLossPercentageStat: it does not return when no
\* sent-to-network event was counted
PopulatePacketLossPercentageStatNoReturn ==
  LET sent_count == IF PACKET_SENT_TO_NETWORK \in DOMAIN packet_stats_ THEN packet_stats_[PACKET_SENT_TO_NETWORK].event_counter ELSE 0
      retransmitted_count == IF PACKET_RETRANSMITTED \in DOMAIN packet_stats_ THEN packet_stats_[PACKET_RETRANSMITTED].event_counter ELSE 0
  IN OneStat(PACKET_LOSS_FRACTION, Ratio(retransmitted_count, sent_count + retransmitted_count))

PopulatePacketLossPercentageStat ==
  IF PACKET_SENT_TO_NETWORK \notin DOMAIN packet_stats_ THEN EmptyMap
  ELSE LET sent_count == packet_stats_[PACKET_SENT_TO_NETWORK].event_counter
           retransmitted_count == IF PACKET_RETRANSMITTED \in DOMAIN packet_stats_ THEN packet_stats_[PACKET_RETRANSMITTED].event_counter ELSE 0
       IN OneStat(PACKET_LOSS_FRACTION, Ratio(retransmitted_count, sent_count + retransmitted_count))

\* a faulty average: with no datapoint it is reported as zero
AverageLatencyStatZero(stat, total, datapoints) == OneStat(stat, IF datapoints > 0 THEN Ratio(total, 1000 * datapoints) ELSE Ratio(0, 1))

\* GetStatsInternal: an average latency, inserted when it has a datapoint
AverageLatencyStat(stat, total, datapoints) == IF datapoints > 0 THEN OneStat(stat, Ratio(total, 1000 * datapoints)) ELSE EmptyMap

\* GetStatsInternal: a time in ms, inserted when the time is not null
TimeStat(stat, time, value) == IF ~is_null(time) THEN OneStat(stat, Ratio(value, 1000)) ELSE EmptyMap

\* the StatsMap GetStatsInternal fills when the clock reads end_time
GetStatsInternal(end_time) ==
  LET s1 == StatsInsert(PopulateFpsStat(end_time, FRAME_CAPTURE_BEGIN, CAPTURE_FPS), PopulateFpsStat(end_time, FRAME_ENCODED, ENCODE_FPS))
      s2 == StatsInsert(s1, PopulateFpsStat(end_time, FRAME_DECODED, DECODE_FPS))
      s3 == StatsInsert(s2, PopulatePlayoutDelayStat)
      s4 == StatsInsert(s3, PopulateFrameBitrateStat(end_time))
      s5 == StatsInsert(s4, PopulatePacketBitrateStat(end_time, PACKET_SENT_TO_NETWORK, TRANSMISSION_KBPS))
      s6 == StatsInsert(s5, PopulatePacketBitrateStat(end_time, PACKET_RETRANSMITTED, RETRANSMISSION_KBPS))
      s7 == StatsInsert(s6, PopulatePacketLossPercentageStat)
      s8 == StatsInsert(s7, PopulateFrameCountStat(FRAME_CAPTURE_END, NUM_FRAMES_CAPTURED))
      s9 == StatsInsert(s8, PopulatePacketCountStat(PACKET_SENT_TO_NETWORK, NUM_PACKETS_SENT))
      s10 == StatsInsert(s9, PopulatePacketCountStat(PACKET_RETRANSMITTED, NUM_PACKETS_RETRANSMITTED))
      s11 == StatsInsert(s10, PopulatePacketCountStat(PACKET_RTX_REJECTED, NUM_PACKETS_RTX_REJECTED))
      s12 == StatsInsert(s11, AverageLatencyStat(AVG_NETWORK_LATENCY_MS, total_network_latency_, network_latency_datapoints_))
      s13 == StatsInsert(s12, AverageLatencyStat(AVG_E2E_LATENCY_MS, total_e2e_latency_, e2e_latency_datapoints_))
      s14 == StatsInsert(s13, TimeStat(MS_SINCE_LAST_RECEIVER_RESPONSE, last_response_received_time_, end_time - last_response_received_time_))
      s15 == StatsInsert(s14, OneStat(NUM_FRAMES_DROPPED_BY_ENCODER, Ratio(num_frames_dropped_by_encoder_, 1)))
      s16 == StatsInsert(s15, OneStat(NUM_FRAMES_LATE, Ratio(num_frames_late_, 1)))
      s17 == StatsInsert(s16, TimeStat(FIRST_EVENT_TIME_MS, first_event_time_, first_event_time_ - UnixEpoch))
  IN StatsInsert(s17, TimeStat(LAST_EVENT_TIME_MS, last_event_time_, last_event_time_ - UnixEpoch))

\* SimpleHistogram::GetHistogram: the list of buckets with their labels;
\* "< min" is [lt, min], "lower - upper" is [range, lower, upper] and
\* ">= max" is [ge, max]
GetHistogram(h) ==
  [i \in 1..Len(h.buckets_) |->
     IF i = 1 THEN [bucket |-> [kind |-> "<", lower |-> h.min_, upper |-> h.min_], count |-> h.buckets_[i]]
     ELSE IF i = Len(h.buckets_) THEN [bucket |-> [kind |-> ">=", lower |-> h.max_, upper |-> h.max_], count |-> h.buckets_[i]]
     ELSE [bucket |-> [kind |-> "-", lower |-> h.min_ + (i - 2) * h.width_, upper |-> h.min_ + (i - 2) * h.width_ + h.width_ - 1], count |-> h.buckets_[i]]]

\* the dictionary GetStats returns when the clock reads now
GetStatsValue(now) == [media |-> IF event_media_type_ = AUDIO_EVENT THEN "audio" ELSE "video", stats |-> GetStatsInternal(now), histograms |-> [n \in DOMAIN histograms_ |-> GetHistogram(histograms_[n])]]

\* a faulty GetStats: it clears what it has reported
GetStatsClearing(now) ==
  /\ frame_stats_' = EmptyMap
  /\ packet_stats_' = EmptyMap
  /\ UNCHANGED <<event_media_type_, total_network_latency_, network_latency_datapoints_, total_e2e_latency_, e2e_latency_datapoints_, num_frames_dropped_by_encoder_, num_frames_late_, recent_frame_infos_, packet_sent_times_, start_time_, last_response_received_time_, first_event_time_, last_event_time_, histograms_>>

\* GetStats is a const member function
GetStats(now) == UNCHANGED engineVars

Reset(now) ==
  /\ frame_stats_' = EmptyMap
  /\ packet_stats_' = EmptyMap
  /\ total_network_latency_' = 0
  /\ network_latency_datapoints_' = 0
  /\ total_e2e_latency_' = 0
  /\ e2e_latency_datapoints_' = 0
  /\ num_frames_dropped_by_encoder_' = 0
  /\ num_frames_late_' = 0
  /\ recent_frame_infos_' = EmptyMap
  /\ packet_sent_times_' = EmptyMap
  /\ start_time_' = now
  /\ last_response_received_time_' = NullTicks
  /\ histograms_' = [n \in DOMAIN histograms_ |-> HistogramReset(histograms_[n])]
  /\ first_event_time_' = NullTicks
  /\ last_event_time_' = NullTicks
  /\ UNCHANGED event_media_type_

(***************************************************************************)
(* FrameIdWrapHelper.  Ids and the wrap count are uint32.                  *)
(***************************************************************************)
kLowRange == "kLowRange"

kMiddleRange == "kMiddleRange"

kHighRange == "kHighRange"

kLowRangeThreshold == 63

kHighRangeThreshold == 192

\* A uint32 is the pair <<high 16 bits, low 16 bits>>: the checker's integers
\* are 32-bit signed, and a pair keeps all of the uint32 arithmetic exact.
UInt32(n) == <<n \div 65536, n % 65536>>

\* kStartFrameId = UINT32_C(0xffffffff)
kStartFrameId == <<65535, 65535>>

\* ++x on a uint32
UInt32Inc(x) == IF x[2] = 65535 THEN <<(x[1] + 1) % 65536, 0>> ELSE <<x[1], x[2] + 1>>

\* --x on a uint32
UInt32Dec(x) == IF x[2] = 0 THEN <<(x[1] + 65535) % 65536, 65535>> ELSE <<x[1], x[2] - 1>>

\* (x << 8) + v on a uint32, v a uint8: the top byte of x is shifted out
UInt32Shl8Add(x, v) == <<(x[1] % 256) * 256 + (x[2] \div 256), (x[2] % 256) * 256 + v>>

\* a < b on uint32
UInt32Less(a, b) == a[1] < b[1] \/ (a[1] = b[1] /\ a[2] < b[2])

ResolverInit ==
  /\ first_ = TRUE
  /\ frame_id_wrap_count_ = UInt32(0)
  /\ range_ = kLowRange

\* a faulty switch: the low range is left for the high range as well
NextRangeNoDebounce(range, v) ==
  CASE range = kLowRange /\ v > kLowRangeThreshold -> (IF v < kHighRangeThreshold THEN kMiddleRange ELSE kHighRange)
    [] range = kMiddleRange /\ v >= kHighRangeThreshold -> kHighRange
    [] range = kHighRange /\ v <= kLowRangeThreshold -> kLowRange
    [] OTHER -> range

\* a faulty switch: the high range is never left
NextRangeHighKept(range, v) ==
  CASE range = kLowRange /\ v > kLowRangeThreshold /\ v < kHighRangeThreshold -> kMiddleRange
    [] range = kMiddleRange /\ v >= kHighRangeThreshold -> kHighRange
    [] OTHER -> range

\* the range_ after the switch
NextRange(range, v) ==
  CASE range = kLowRange /\ v > kLowRangeThreshold /\ v < kHighRangeThreshold -> kMiddleRange
    [] range = kMiddleRange /\ v >= kHighRangeThreshold -> kHighRange
    [] range = kHighRange /\ v <= kLowRangeThreshold -> kLowRange
    [] OTHER -> range

\* a faulty switch: the sample that triggers the wrap keeps the old count
LocalWrapCountStale(range, stored, v) ==
  CASE range = kLowRange /\ v >= kHighRangeThreshold -> UInt32Dec(stored)
    [] OTHER -> stored

\* a faulty switch: an old sample seen in the low range keeps the new count
LocalWrapCountNoOld(range, stored, v) ==
  CASE range = kHighRange /\ v <= kLowRangeThreshold -> UInt32Inc(stored)
    [] OTHER -> stored

\* the local wrap_count after the switch
LocalWrapCount(range, stored, v) ==
  CASE range = kLowRange /\ v >= kHighRangeThreshold -> UInt32Dec(stored)
    [] range = kHighRange /\ v <= kLowRangeThreshold -> UInt32Inc(stored)
    [] OTHER -> stored

\* a faulty switch: a low value counts a wrap in the middle range as well
StoredWrapCountEveryLow(range, stored, v) == IF range # kLowRange /\ v <= kLowRangeThreshold THEN UInt32Inc(stored) ELSE stored

\* a faulty switch: the wrap is not counted
StoredWrapCountKept(range, stored, v) == stored

\* frame_id_wrap_count_ after the switch
StoredWrapCount(range, stored, v) == IF range = kHighRange /\ v <= kLowRangeThreshold THEN UInt32Inc(stored) ELSE stored

\* a faulty start-up: every 0xFF is answered with the start id
MappedFrameIdEveryFF(first, range, stored, v) == IF v = 255 THEN kStartFrameId ELSE UInt32Shl8Add(LocalWrapCount(range, stored, v), v)

\* the value MapTo32bitsFrameId returns
MappedFrameId(first, range, stored, v) == IF first /\ v = 255 THEN kStartFrameId ELSE UInt32Shl8Add(LocalWrapCount(range, stored, v), v)

MapTo32bitsFrameId(over_the_wire_frame_id) ==
  /\ first_' = FALSE
  /\ IF first_ /\ over_the_wire_frame_id = 255
     THEN UNCHANGED <<frame_id_wrap_count_, range_>>
     ELSE /\ range_' = NextRange(range_, over_the_wire_frame_id)
          /\ frame_id_wrap_count_' = StoredWrapCount(range_, frame_id_wrap_count_, over_the_wire_frame_id)

(***************************************************************************)
(* Observation of a run of the engine.  None of it is read by the engine.  *)
(***************************************************************************)
EngineState == [frame_stats |-> frame_stats_, packet_stats |-> packet_stats_, total_network_latency |-> total_network_latency_, network_latency_datapoints |-> network_latency_datapoints_, total_e2e_latency |-> total_e2e_latency_, e2e_latency_datapoints |-> e2e_latency_datapoints_, num_frames_dropped_by_encoder |-> num_frames_dropped_by_encoder_, num_frames_late |-> num_frames_late_, recent_frame_infos |-> recent_frame_infos_, packet_sent_times |-> packet_sent_times_, start_time |-> start_time_, last_response_received_time |-> last_response_received_time_, first_event_time |-> first_event_time_, last_event_time |-> last_event_time_, histograms |-> histograms_, packet_last_type |-> packet_last_type]

NoEvent == [type |-> "none"]

FrameEvent(type, media_type, timestamp, rtp_timestamp, size, delay_delta) == [type |-> type, media_type |-> media_type, timestamp |-> timestamp, rtp_timestamp |-> rtp_timestamp, size |-> size, delay_delta |-> delay_delta]

PacketEvent(type, media_type, timestamp, rtp_timestamp, packet_id, size) == [type |-> type, media_type |-> media_type, timestamp |-> timestamp, rtp_timestamp |-> rtp_timestamp, packet_id |-> packet_id, size |-> size]

\* the zone of a wire value
Zone(v) == IF v <= kLowRangeThreshold THEN kLowRange ELSE IF v < kHighRangeThreshold THEN kMiddleRange ELSE kHighRange

\* What is known of an in-order stream of wire values: whether the first call
\* was the start-up 0xFF (sentinel), whether a first observation was made
\* (started) and its zone (start), whether a later one was made (steps),
\* whether every advance was at most 64 (small), whether every value was in
\* the zone of the one before or in the next zone (zones), how often the
\* values passed 255 (passed), the value and id of the call before, and the
\* first value plus all advances made (unwrapped).
NoStream == [started |-> FALSE, sentinel |-> FALSE, start |-> "none", steps |-> 0, small |-> TRUE, zones |-> TRUE, passed |-> 0, prev_v |-> 0, prev_id |-> UInt32(0), example |-> 0, unwrapped |-> 0]

\* What is known of a reordered stream of the frame ids 0, 1, 2, ...: how
\* many samples were delivered (position), the least id never delivered nor
\* overtaken (frontier), the ids overtaken and not yet delivered (pending),
\* the id delivered last (id), the most positions a delivered sample was
\* displaced by (displaced), and how many samples arrived early (early).
NoReorder == [position |-> 0, frontier |-> 0, pending |-> {}, id |-> 0, displaced |-> 0, early |-> 0]

\* the wire values of the wrap-around example: 0xFF, then 0 ... 250, 10, 60
ExampleWire == <<255, 0, 50, 100, 150, 200, 250, 10, 60>>

\* the zone after a zone, going up the wire values
NextZone(zone) == CASE zone = kLowRange -> kMiddleRange [] zone = kMiddleRange -> kHighRange [] OTHER -> kLowRange

\* how far the calls made so far follow the example, -1 once they left it
ExampleAfter(n, v) == IF n >= 0 /\ n < Len(ExampleWire) /\ ExampleWire[n + 1] = v THEN n + 1 ELSE -1

\* the timestamp an event is bookkept with, if it is: a sender event as given,
\* a receiver event in the sender's clock when the estimator answers
BookkeptTimes(ev, bounds) == IF ev.type \in {FRAME_ACK_SENT, FRAME_DECODED, FRAME_PLAYOUT, PACKET_RECEIVED} THEN (IF bounds.ok THEN {ev.timestamp - (bounds.lower + bounds.upper) \div 2} ELSE {}) ELSE {ev.timestamp}

\* history, where it is kept, lists the events of the engine's media type
\* handled since construction or Reset, each with its bookkept timestamp
NoHistory == [kept |-> FALSE, events |-> <<>>]

Recorded(ev, bounds) == IF history.kept /\ ev.media_type = event_media_type_ THEN [history EXCEPT !.events = Append(@, [type |-> ev.type, rtp_timestamp |-> ev.rtp_timestamp, times |-> BookkeptTimes(ev, bounds)])] ELSE history

\* the observation of a run whose history is kept
ObsInitKept ==
  /\ history = [NoHistory EXCEPT !.kept = TRUE]
  /\ last = [op |-> "construct", ev |-> NoEvent, bounds |-> NoBounds]
  /\ ncalls = 0
  /\ capture_run = [ok |-> TRUE, rtps |-> <<>>]
  /\ packet_last_type = EmptyMap
  /\ pre = EngineState
  /\ retransmitted_keys = {}
  /\ resolver_last = [called |-> FALSE, v |-> 0, id |-> UInt32(0), first |-> TRUE, range |-> kLowRange, wrap_count |-> UInt32(0)]
  /\ stream = NoStream
  /\ reorder = NoReorder

\* the observation of a run whose history is not kept
ObsInit ==
  /\ history = NoHistory
  /\ last = [op |-> "construct", ev |-> NoEvent, bounds |-> NoBounds]
  /\ ncalls = 0
  /\ capture_run = [ok |-> TRUE, rtps |-> <<>>]
  /\ packet_last_type = EmptyMap
  /\ pre = EngineState
  /\ retransmitted_keys = {}
  /\ resolver_last = [called |-> FALSE, v |-> 0, id |-> UInt32(0), first |-> TRUE, range |-> kLowRange, wrap_count |-> UInt32(0)]
  /\ stream = NoStream
  /\ reorder = NoReorder

\* packet_last_type maps a key to the kinds of the last two sent, received or
\* retransmitted events seen for it since construction or Reset
LastTypes(types, key) == IF key \in DOMAIN types THEN types[key] ELSE <<"none", "none">>

\* a faulty OnReceiveFrameEvent, observed: the media type is not looked at
FrameCallAnyMedia(ev, bounds) ==
  /\ OnReceiveFrameEvent([ev EXCEPT !.media_type = event_media_type_], bounds)
  /\ last' = [op |-> "OnReceiveFrameEvent", ev |-> ev, bounds |-> bounds]
  /\ pre' = EngineState
  /\ ncalls' = ncalls + 1
  /\ capture_run' = [capture_run EXCEPT !.ok = FALSE]
  /\ history' = Recorded([ev EXCEPT !.media_type = event_media_type_], bounds)
  /\ UNCHANGED <<packet_last_type, retransmitted_keys, resolverVars, resolverObs, histogramVars, snapshot>>

\* a call of OnReceiveFrameEvent, observed
FrameCall(ev, bounds) ==
  /\ OnReceiveFrameEvent(ev, bounds)
  /\ last' = [op |-> "OnReceiveFrameEvent", ev |-> ev, bounds |-> bounds]
  /\ pre' = EngineState
  /\ ncalls' = ncalls + 1
  /\ capture_run' = IF capture_run.ok /\ ev.media_type = event_media_type_ /\ ev.type = FRAME_CAPTURE_BEGIN /\ (capture_run.rtps = <<>> \/ capture_run.rtps[Len(capture_run.rtps)] < ev.rtp_timestamp)
                    THEN [capture_run EXCEPT !.rtps = Append(@, ev.rtp_timestamp)]
                    ELSE [capture_run EXCEPT !.ok = FALSE]
  /\ history' = Recorded(ev, bounds)
  /\ UNCHANGED <<packet_last_type, retransmitted_keys, resolverVars, resolverObs, histogramVars, snapshot>>

\* a call of OnReceivePacketEvent, observed
PacketCall(ev, bounds) ==
  /\ OnReceivePacketEvent(ev, bounds)
  /\ last' = [op |-> "OnReceivePacketEvent", ev |-> ev, bounds |-> bounds]
  /\ pre' = EngineState
  /\ ncalls' = ncalls + 1
  /\ capture_run' = [capture_run EXCEPT !.ok = FALSE]
  /\ packet_last_type' = IF ev.media_type = event_media_type_ /\ ev.type \in {PACKET_SENT_TO_NETWORK, PACKET_RECEIVED, PACKET_RETRANSMITTED} THEN MapPut(packet_last_type, PacketKey(ev), <<LastTypes(packet_last_type, PacketKey(ev))[2], ev.type>>) ELSE packet_last_type
  /\ retransmitted_keys' = IF ev.media_type = event_media_type_ /\ ev.type = PACKET_RETRANSMITTED THEN retransmitted_keys \cup {PacketKey(ev)} ELSE retransmitted_keys
  /\ history' = Recorded(ev, bounds)
  /\ UNCHANGED <<resolverVars, resolverObs, histogramVars, snapshot>>

\* a call of Reset, observed
ResetCall(now) ==
  /\ Reset(now)
  /\ last' = [op |-> "Reset", ev |-> NoEvent, bounds |-> NoBounds]
  /\ pre' = EngineState
  /\ ncalls' = ncalls + 1
  /\ capture_run' = [ok |-> TRUE, rtps |-> <<>>]
  /\ packet_last_type' = EmptyMap
  /\ retransmitted_keys' = {}
  /\ history' = [history EXCEPT !.events = <<>>]
  /\ UNCHANGED <<resolverVars, resolverObs, histogramVars, snapshot>>

\* no snapshot taken yet
NoSnapshot == [media |-> "none", stats |-> EmptyMap, histograms |-> EmptyMap]

SnapshotInit == snapshot = [now |-> NullTicks, value |-> NoSnapshot, again |-> FALSE, before |-> NoSnapshot]

\* a call of GetStats when the clock reads now, observed: the value it
\* returns, whether the call before was a GetStats at the same clock reading,
\* and the value that one returned
GetStatsCall(now) ==
  /\ GetStats(now)
  /\ snapshot' = [now |-> now, value |-> GetStatsValue(now), again |-> (last.op = "GetStats" /\ snapshot.now = now), before |-> snapshot.value]
  /\ last' = [op |-> "GetStats", ev |-> NoEvent, bounds |-> NoBounds]
  /\ pre' = EngineState
  /\ ncalls' = ncalls + 1
  /\ UNCHANGED <<capture_run, packet_last_type, retransmitted_keys, history, resolverVars, resolverObs, histogramVars>>

\* a histogram as constructed, no call made to it yet
HistogramInit(min, max, width) ==
  /\ construction = [attempted |-> TRUE, min |-> min, max |-> max, width |-> width, outcome |-> "constructed"]
  /\ histogram = SimpleHistogram(min, max, width)
  /\ histogram_last = [op |-> "construct", sample |-> 0, before |-> SimpleHistogram(min, max, width).buckets_, adds |-> 0, calls |-> 0]

\* no histogram: none was constructed yet, or the construction was fatal
NoHistogram == [min_ |-> 0, max_ |-> 0, width_ |-> 0, buckets_ |-> <<>>]

HistogramNotConstructed ==
  /\ construction = [attempted |-> FALSE, min |-> 0, max |-> 0, width |-> 0, outcome |-> "none"]
  /\ histogram = NoHistogram
  /\ histogram_last = [op |-> "none", sample |-> 0, before |-> <<>>, adds |-> 0, calls |-> 0]

\* a call of the constructor of SimpleHistogram, observed
HistogramConstruct(min, max, width) ==
  /\ \E outcome \in SimpleHistogramOutcomes(min, max, width) :
       /\ construction' = [attempted |-> TRUE, min |-> min, max |-> max, width |-> width, outcome |-> outcome]
       /\ histogram' = IF outcome = "constructed" THEN SimpleHistogram(min, max, width) ELSE NoHistogram
  /\ histogram_last' = [histogram_last EXCEPT !.op = "construct"]
  /\ UNCHANGED <<engineVars, engineObs, resolverVars, resolverObs, snapshot>>

\* a call of SimpleHistogram::Add, observed
HistogramAddCall(sample) ==
  /\ histogram' = HistogramAdd(histogram, sample)
  /\ histogram_last' = [op |-> "Add", sample |-> sample, before |-> histogram.buckets_, adds |-> histogram_last.adds + 1, calls |-> histogram_last.calls + 1]
  /\ UNCHANGED <<engineVars, engineObs, resolverVars, resolverObs, snapshot, construction>>

\* a call of SimpleHistogram::Reset, observed
HistogramResetCall ==
  /\ histogram' = HistogramReset(histogram)
  /\ histogram_last' = [op |-> "Reset", sample |-> 0, before |-> histogram.buckets_, adds |-> 0, calls |-> histogram_last.calls + 1]
  /\ UNCHANGED <<engineVars, engineObs, resolverVars, resolverObs, snapshot, construction>>

\* a call of MapTo32bitsFrameId, observed
ResolverCall(v) ==
  /\ MapTo32bitsFrameId(v)
  /\ resolver_last' = [called |-> TRUE, v |-> v, id |-> MappedFrameId(first_, range_, frame_id_wrap_count_, v), first |-> first_, range |-> range_, wrap_count |-> frame_id_wrap_count_]
  /\ UNCHANGED <<engineVars, engineObs, histogramVars, snapshot>>

(***************************************************************************)
(* The inputs                                                              *)
(***************************************************************************)
ConstructionTime == 1000000

RtpTimestamps == 1..(MaxFrameCache + 1)

\* the timestamp given to an event of each kind
EventTime(type) == CASE type = FRAME_CAPTURE_BEGIN -> 10000 [] type = FRAME_CAPTURE_END -> 20000 [] type = FRAME_ENCODED -> 35000 [] type = PACKET_RECEIVED -> 25000 [] OTHER -> 10000

OffsetBounds == Bounds(2000, 4000)

\* frame events that reach the frame cache
CacheFrameEvents == {FrameEvent(t, VIDEO_EVENT, EventTime(t), rtp, IF t = FRAME_ENCODED THEN 1000 ELSE 0, 0) : t \in {FRAME_CAPTURE_BEGIN, FRAME_CAPTURE_END, FRAME_ENCODED}, rtp \in RtpTimestamps}

PacketKeys == {<<1, 0>>, <<1, 1>>, <<2, 0>>, <<2, 1>>}

\* packet events that reach the pairing cache, with the estimator's answer
PairingInputs == {<<PacketEvent(t, VIDEO_EVENT, EventTime(t), k[1], k[2], 100), b>> : t \in {PACKET_SENT_TO_NETWORK, PACKET_RECEIVED}, k \in PacketKeys, b \in {NoBounds, OffsetBounds}} \cup {<<PacketEvent(PACKET_RETRANSMITTED, VIDEO_EVENT, EventTime(PACKET_RETRANSMITTED), k[1], k[2], 100), NoBounds>> : k \in PacketKeys}

(***************************************************************************)
(* CacheSpec: the engine fed frame events that work the frame cache.       *)
(***************************************************************************)
EngineConstructed == EngineInit(VIDEO_EVENT, ConstructionTime) /\ ResolverInit /\ ObsInit /\ HistogramInit(0, kMaxLatencyBucketMs, kBucketWidthMs) /\ SnapshotInit

CacheFrameEvent == ncalls < MaxCalls /\ \E ev \in CacheFrameEvents : FrameCall(ev, NoBounds)

CachePacketEvent == ncalls < MaxCalls /\ PacketCall(PacketEvent(PACKET_SENT_TO_NETWORK, VIDEO_EVENT, 10000, 1, 0, 100), NoBounds)

CacheReset == ncalls < MaxCalls /\ ResetCall(ConstructionTime)

CacheNext == CacheFrameEvent \/ CachePacketEvent \/ CacheReset

CacheSpec == EngineConstructed /\ [][CacheNext]_vars

(***************************************************************************)
(* PacketSpec: the engine fed packet events that work the pairing cache.   *)
(***************************************************************************)
PairingPacketEvent == ncalls < MaxPacketCalls /\ \E in \in PairingInputs : PacketCall(in[1], in[2])

PairingFrameEvent == ncalls < MaxPacketCalls /\ FrameCall(FrameEvent(FRAME_CAPTURE_BEGIN, VIDEO_EVENT, 10000, 1, 0, 0), NoBounds)

PairingReset == ncalls < MaxPacketCalls /\ ResetCall(ConstructionTime)

PacketNext == PairingPacketEvent \/ PairingFrameEvent \/ PairingReset

PacketSpec == EngineConstructed /\ [][PacketNext]_vars

(***************************************************************************)
(* ResolverSpec: the resolver fed any wire values.                         *)
(***************************************************************************)
WireValues == 0..255

Resolve == frame_id_wrap_count_ # UInt32(MaxWraps) /\ \E v \in WireValues : ResolverCall(v) /\ UNCHANGED <<stream, reorder>>

ResolverNext == Resolve

ResolverSpec == EngineConstructed /\ [][ResolverNext]_vars

(***************************************************************************)
(* InOrderSpec: the resolver fed an in-order stream: after an optional     *)
(* start-up 0xFF, a first observation, then values that each advance the   *)
(* one before by 1 to 127 (mod 256).                                       *)
(***************************************************************************)
Advances == {1, 2, 16, 50, 63, 64, 65, 126, 127}

InOrderSentinel ==
  /\ first_
  /\ ResolverCall(255)
  /\ stream' = [stream EXCEPT !.sentinel = TRUE, !.example = ExampleAfter(@, 255)]
  /\ UNCHANGED reorder

InOrderStart ==
  /\ ~stream.started
  /\ \E v \in WireValues :
       /\ first_ => v # 255
       /\ ResolverCall(v)
       /\ stream' = [stream EXCEPT !.started = TRUE, !.start = Zone(v), !.example = ExampleAfter(@, v), !.unwrapped = v]
       /\ UNCHANGED reorder

InOrderStep ==
  /\ stream.started
  /\ stream.passed < MaxWraps
  /\ \E d \in Advances :
       LET v == (resolver_last.v + d) % 256
       IN /\ ResolverCall(v)
          /\ stream' = [stream EXCEPT !.steps = 1, !.small = @ /\ d <= 64, !.zones = @ /\ Zone(v) \in {Zone(resolver_last.v), NextZone(Zone(resolver_last.v))},
                                      !.passed = IF v < resolver_last.v THEN @ + 1 ELSE @, !.prev_v = resolver_last.v, !.prev_id = resolver_last.id, !.example = ExampleAfter(@, v), !.unwrapped = @ + d]
          /\ UNCHANGED reorder

InOrderNext == InOrderSentinel \/ InOrderStart \/ InOrderStep

InOrderSpec == EngineConstructed /\ [][InOrderNext]_vars

(***************************************************************************)
(* FrameSpec: the engine fed frame events of every kind for two frames,    *)
(* with and without an answer of the offset estimator, events of the other *)
(* media type, and packet events.  Frame 100 is captured when the clock    *)
(* reads 1 ms, its capture ends 10 ms and it is encoded 25 ms after that;  *)
(* frame 1 is captured 5 ms or 0.5 ms before its capture ends.             *)
(***************************************************************************)
FrameRtpTimestamps == {1, 100}

\* the clock's reading that the times of a frame's sender events count from
FrameClock(rtp) == IF rtp = 100 THEN 1000 ELSE 0

\* the capture-begin events
CaptureBeginEvents == {FrameEvent(FRAME_CAPTURE_BEGIN, VIDEO_EVENT, 5000, 1, 0, 0), FrameEvent(FRAME_CAPTURE_BEGIN, VIDEO_EVENT, 9500, 1, 0, 0), FrameEvent(FRAME_CAPTURE_BEGIN, VIDEO_EVENT, FrameClock(100), 100, 0, 0)}

\* the other sender-side frame events
SenderFrameEvents == {FrameEvent(FRAME_CAPTURE_END, VIDEO_EVENT, FrameClock(rtp) + 10000, rtp, 0, 0) : rtp \in FrameRtpTimestamps} \cup {FrameEvent(FRAME_ENCODED, VIDEO_EVENT, FrameClock(rtp) + 25000, rtp, 1000, 0) : rtp \in FrameRtpTimestamps}

\* the receiver-side frame events; the playout of frame 100 is late
ReceiverFrameEvents == {FrameEvent(FRAME_ACK_SENT, VIDEO_EVENT, 40000, rtp, 0, 0) : rtp \in FrameRtpTimestamps} \cup {FrameEvent(FRAME_DECODED, VIDEO_EVENT, 45000, 1, 0, 0), FrameEvent(FRAME_PLAYOUT, VIDEO_EVENT, 50000, 1, 0, 7000), FrameEvent(FRAME_PLAYOUT, VIDEO_EVENT, 50000, 100, 0, -3000)}

\* frame events with the estimator's answer during the call
FrameInputs == {<<ev, NoBounds>> : ev \in CaptureBeginEvents \cup SenderFrameEvents} \cup {<<ev, b>> : ev \in ReceiverFrameEvents, b \in {NoBounds, OffsetBounds}}

\* packet events with the estimator's answer during the call
FramePacketInputs == {<<PacketEvent(PACKET_RECEIVED, VIDEO_EVENT, 25000, 1, 0, 100), b>> : b \in {NoBounds, OffsetBounds}} \cup {<<PacketEvent(PACKET_SENT_TO_NETWORK, VIDEO_EVENT, 10000, 1, 0, 100), OffsetBounds>>}

FrameEventStep == ncalls < MaxFrameCalls /\ \E in \in FrameInputs : FrameCall(in[1], in[2])

FramePacketStep == ncalls < MaxFrameCalls /\ \E in \in FramePacketInputs : PacketCall(in[1], in[2])

\* events of the media type the engine was not constructed for
OtherMediaFrameStep == ncalls < MaxFrameCalls /\ \E t \in {FRAME_CAPTURE_BEGIN, FRAME_PLAYOUT} : FrameCall(FrameEvent(t, AUDIO_EVENT, 50000, 1, 500, 7000), OffsetBounds)

OtherMediaPacketStep == ncalls < MaxFrameCalls /\ \E t \in {PACKET_SENT_TO_NETWORK, PACKET_RECEIVED} : PacketCall(PacketEvent(t, AUDIO_EVENT, 25000, 1, 0, 100), OffsetBounds)

FrameReset == ncalls < MaxFrameCalls /\ ResetCall(ConstructionTime)

FrameNext == FrameEventStep \/ FramePacketStep \/ OtherMediaFrameStep \/ OtherMediaPacketStep \/ FrameReset

FrameSpec == EngineConstructed /\ [][FrameNext]_vars

(***************************************************************************)
(* SnapshotSpec: the engine fed the events of one packet and one frame,    *)
(* the estimator answering with no bounds or one of two bounds, with       *)
(* snapshots taken in between, at construction time or two seconds later.  *)
(***************************************************************************)
LaterOffsetBounds == Bounds(3000, 7000)

\* sent events of packet (1, 0) at one of two times, and its received event
SnapshotPairingEvents == {PacketEvent(PACKET_SENT_TO_NETWORK, VIDEO_EVENT, t, 1, 0, 100) : t \in {10000, 12000}} \cup {PacketEvent(PACKET_RECEIVED, VIDEO_EVENT, 25000, 1, 0, 100)}

SnapshotPacketInputs == {<<ev, b>> : ev \in SnapshotPairingEvents, b \in {NoBounds, OffsetBounds, LaterOffsetBounds}} \cup {<<PacketEvent(PACKET_RETRANSMITTED, VIDEO_EVENT, 30000, 1, 0, 100), NoBounds>>}

SnapshotFrameInputs == {<<FrameEvent(FRAME_CAPTURE_BEGIN, VIDEO_EVENT, 5000, 1, 0, 0), NoBounds>>, <<FrameEvent(FRAME_PLAYOUT, VIDEO_EVENT, 50000, 1, 0, 7000), OffsetBounds>>}

\* the clock's readings when a snapshot is taken
SnapshotTimes == {ConstructionTime, ConstructionTime + 2000000}

SnapshotPacketStep == ncalls < MaxSnapshotCalls /\ \E in \in SnapshotPacketInputs : PacketCall(in[1], in[2])

SnapshotFrameStep == ncalls < MaxSnapshotCalls /\ \E in \in SnapshotFrameInputs : FrameCall(in[1], in[2])

SnapshotTaken == ncalls < MaxSnapshotCalls /\ \E now \in SnapshotTimes : GetStatsCall(now)

SnapshotReset == ncalls < MaxSnapshotCalls /\ ResetCall(ConstructionTime)

SnapshotNext == SnapshotPacketStep \/ SnapshotFrameStep \/ SnapshotTaken \/ SnapshotReset

SnapshotSpec == EngineConstructed /\ [][SnapshotNext]_vars

(***************************************************************************)
(* HistogramSpec: a histogram of one of a few shapes, given samples below, *)
(* inside, at the edges of and above its range.                            *)
(***************************************************************************)
\* <<min, max, width>>
HistogramShapes == {<<0, kMaxLatencyBucketMs, kBucketWidthMs>>, <<-40, 40, 10>>, <<10, 50, 20>>}

Samples == {-45, -40, -5, -1, 0, 9, 10, 19, 20, 29, 30, 39, 40, 49, 50, 779, 780, 799, 800, 10000}

HistogramConstructed == EngineInit(VIDEO_EVENT, ConstructionTime) /\ ResolverInit /\ ObsInit /\ SnapshotInit /\ \E shape \in HistogramShapes : HistogramInit(shape[1], shape[2], shape[3])

HistogramAddStep == histogram_last.calls < MaxHistogramCalls /\ \E sample \in Samples : HistogramAddCall(sample)

HistogramResetStep == histogram_last.calls < MaxHistogramCalls /\ HistogramResetCall

HistogramNext == HistogramAddStep \/ HistogramResetStep

HistogramSpec == HistogramConstructed /\ [][HistogramNext]_vars

(***************************************************************************)
(* ConstructionSpec: a histogram constructed with arguments that meet or   *)
(* miss the constructor's checks, then given a sample if it exists.        *)
(***************************************************************************)
ConstructionMins == {-40, 0, 10, 800}

ConstructionMaxs == {-40, 0, 40, 50, 800, 810}

ConstructionWidths == {-20, -10, 0, 7, 10, 20}

ConstructionStart == EngineInit(VIDEO_EVENT, ConstructionTime) /\ ResolverInit /\ ObsInit /\ SnapshotInit /\ HistogramNotConstructed

ConstructionAttempt == ~construction.attempted /\ \E min \in ConstructionMins, max \in ConstructionMaxs, width \in ConstructionWidths : HistogramConstruct(min, max, width)

ConstructionAdd == construction.outcome = "constructed" /\ histogram_last.calls = 0 /\ \E sample \in {-5, 30, 10000} : HistogramAddCall(sample)

ConstructionNext == ConstructionAttempt \/ ConstructionAdd

ConstructionSpec == ConstructionStart /\ [][ConstructionNext]_vars

(***************************************************************************)
(* ReorderSpec: the resolver fed the frame ids 0, 1, 2, ... as id mod 256, *)
(* reordered: at some ids a later sample arrives early and overtakes the   *)
(* ids before it, which arrive afterwards, oldest first, in between the    *)
(* samples that follow; no sample is displaced by more than                *)
(* MaxDisplacement positions.                                              *)
(***************************************************************************)
\* the ids at which a later sample may arrive early
ReorderPoints == {191, 194, 250, 300}

\* by how many ids it is ahead
EarlyBy == {1, 6, 32, 62, 63}

\* the sample of a frame id is delivered to the resolver
Deliver(id, frontier, pending, early) ==
  /\ ResolverCall(id % 256)
  /\ reorder' = [position |-> reorder.position + 1, frontier |-> frontier, pending |-> pending, id |-> id, early |-> early,
                 displaced |-> Max(reorder.displaced, IF id > reorder.position THEN id - reorder.position ELSE reorder.position - id)]
  /\ UNCHANGED stream

\* every overtaken id can still arrive in time after one more delivery
InTime(pending) == \A q \in pending : reorder.position + 1 - q <= MaxDisplacement

ReorderNextInOrder ==
  /\ reorder.frontier <= MaxFrameId
  /\ InTime(reorder.pending)
  /\ Deliver(reorder.frontier, reorder.frontier + 1, reorder.pending, reorder.early)

ReorderEarly ==
  /\ reorder.frontier \in ReorderPoints
  /\ reorder.early < MaxEarly
  /\ \E by \in EarlyBy :
       LET id == reorder.frontier + by
           pending == reorder.pending \cup (reorder.frontier..(id - 1))
       IN /\ id <= MaxFrameId
          /\ id - reorder.position <= MaxDisplacement
          /\ InTime(pending)
          /\ Deliver(id, id + 1, pending, reorder.early + 1)

ReorderLate ==
  /\ reorder.pending # {}
  /\ LET id == CHOOSE q \in reorder.pending : \A r \in reorder.pending : q <= r
     IN Deliver(id, reorder.frontier, reorder.pending \ {id}, reorder.early)

ReorderNext == ReorderNextInOrder \/ ReorderEarly \/ ReorderLate

ReorderSpec == EngineConstructed /\ [][ReorderNext]_vars

(***************************************************************************)
(* TimelineSpec: the engine fed sender and receiver events of one frame    *)
(* and one packet, early and late, with and without an answer of the       *)
(* offset estimator, playouts early, on time and late, and asked for a     *)
(* snapshot; the history of the run is kept.                               *)
(***************************************************************************)
TimelineSenderInputs == {<<FrameEvent(FRAME_CAPTURE_BEGIN, VIDEO_EVENT, 20000, 1, 0, 0), NoBounds>>} \cup {<<PacketEvent(PACKET_SENT_TO_NETWORK, VIDEO_EVENT, 10000, 1, 0, 100), b>> : b \in {NoBounds, OffsetBounds}}

TimelineReceiverFrameInputs == {<<FrameEvent(t, VIDEO_EVENT, IF t = FRAME_ACK_SENT THEN 40000 ELSE 45000, 1, 0, 0), b>> : t \in {FRAME_ACK_SENT, FRAME_DECODED}, b \in {NoBounds, OffsetBounds}} \cup {<<FrameEvent(FRAME_PLAYOUT, VIDEO_EVENT, 50000, 1, 0, 7000), b>> : b \in {NoBounds, OffsetBounds}} \cup {<<FrameEvent(FRAME_PLAYOUT, VIDEO_EVENT, 50000, 1, 0, 0), OffsetBounds>>, <<FrameEvent(FRAME_PLAYOUT, VIDEO_EVENT, 50000, 1, 0, -500), NoBounds>>}

TimelineReceiverPacketInputs == {<<PacketEvent(PACKET_RECEIVED, VIDEO_EVENT, 25000, 1, 0, 100), b>> : b \in {NoBounds, OffsetBounds}}

TimelineConstructed == EngineInit(VIDEO_EVENT, ConstructionTime) /\ ResolverInit /\ ObsInitKept /\ HistogramInit(0, kMaxLatencyBucketMs, kBucketWidthMs) /\ SnapshotInit

TimelineFrameStep == ncalls < MaxTimelineCalls /\ \E in \in {i \in TimelineSenderInputs : i[1].type = FRAME_CAPTURE_BEGIN} \cup TimelineReceiverFrameInputs : FrameCall(in[1], in[2])

TimelinePacketStep == ncalls < MaxTimelineCalls /\ \E in \in {i \in TimelineSenderInputs : i[1].type = PACKET_SENT_TO_NETWORK} \cup TimelineReceiverPacketInputs : PacketCall(in[1], in[2])

TimelineSnapshot == ncalls < MaxTimelineCalls /\ GetStatsCall(ConstructionTime)

TimelineReset == ncalls < MaxTimelineCalls /\ ResetCall(ConstructionTime)

TimelineNext == TimelineFrameStep \/ TimelinePacketStep \/ TimelineSnapshot \/ TimelineReset

TimelineSpec == TimelineConstructed /\ [][TimelineNext]_vars

(***************************************************************************)
(* CaptureSpec: the engine fed capture and encode events of more frames    *)
(* than the frame cache holds, and capture-end events of the other media   *)
(* type, and asked for a snapshot; the history of the run is kept.         *)
(***************************************************************************)
CaptureInputs == {FrameEvent(FRAME_CAPTURE_BEGIN, VIDEO_EVENT, EventTime(FRAME_CAPTURE_BEGIN), rtp, 0, 0) : rtp \in RtpTimestamps} \cup {FrameEvent(FRAME_CAPTURE_END, VIDEO_EVENT, EventTime(FRAME_CAPTURE_END), rtp, 0, 0) : rtp \in {1, 2}} \cup {FrameEvent(FRAME_ENCODED, VIDEO_EVENT, EventTime(FRAME_ENCODED), 1, 1000, 0), FrameEvent(FRAME_CAPTURE_END, AUDIO_EVENT, EventTime(FRAME_CAPTURE_END), 1, 0, 0)}

CaptureFrameStep == ncalls < MaxCaptureCalls /\ \E ev \in CaptureInputs : FrameCall(ev, NoBounds)

CaptureSnapshot == ncalls < MaxCaptureCalls /\ GetStatsCall(ConstructionTime + 2000000)

CaptureReset == ncalls < MaxCaptureCalls /\ ResetCall(ConstructionTime)

CaptureNext == CaptureFrameStep \/ CaptureSnapshot \/ CaptureReset

CaptureSpec == TimelineConstructed /\ [][CaptureNext]_vars

(***************************************************************************)
(* Properties.  `last` is the call just made and `pre` the engine as that  *)
(* call found it.                                                          *)
(***************************************************************************)
RECURSIVE SeqSum(_)
SeqSum(q) == IF q = <<>> THEN 0 ELSE q[1] + SeqSum(Tail(q))

\* the number of samples a histogram holds
SampleCount(h) == SeqSum(h.buckets_)

\* the last call was a frame event of the engine's media type
FrameEventHandled == last.op = "OnReceiveFrameEvent" /\ last.ev.media_type = event_media_type_

\* the last call was a packet event of the engine's media type
PacketEventHandled == last.op = "OnReceivePacketEvent" /\ last.ev.media_type = event_media_type_

\* the last call was an event that inserts into the frame cache
InsertingFrameEvent == FrameEventHandled /\ (last.ev.type = FRAME_CAPTURE_BEGIN \/ (last.ev.type = FRAME_ENCODED /\ last.ev.rtp_timestamp \notin DOMAIN pre.recent_frame_infos))

\* the last call was a sent or received packet event handled with an offset
PairingEventHandled == PacketEventHandled /\ last.ev.type \in {PACKET_SENT_TO_NETWORK, PACKET_RECEIVED} /\ last.bounds.ok

\* the network-latency statistics are as the last call found them
NetworkLatencyUntouched == network_latency_datapoints_ = pre.network_latency_datapoints /\ total_network_latency_ = pre.total_network_latency /\ histograms_[PACKET_LATENCY_MS_HISTO] = pre.histograms[PACKET_LATENCY_MS_HISTO]

\* C1: from an empty engine, after N + 1 capture-begin events with strictly
\* increasing rtp_timestamp (N = kMaxFrameInfoMapSize) the frame cache holds
\* exactly N entries, all but the smallest id, and the dropped-by-encoder
\* counter stands at 1 (the evicted entry had no encode time).
C1_BoundedCacheEviction ==
  (capture_run.ok /\ Len(capture_run.rtps) = kMaxFrameInfoMapSize + 1) =>
    /\ Cardinality(DOMAIN recent_frame_infos_) = kMaxFrameInfoMapSize
    /\ DOMAIN recent_frame_infos_ = {capture_run.rtps[i] : i \in 2..Len(capture_run.rtps)}
    /\ num_frames_dropped_by_encoder_ = 1

\* C2: an inserting event whose rtp_timestamp is smaller than every cached key
\* and which the cache, being at capacity, does not take in is skipped
\* entirely: the cached keys and the dropped-by-encoder counter are unchanged.
C2_InsertSkippedAtCapacity ==
  (/\ InsertingFrameEvent
   /\ DOMAIN pre.recent_frame_infos # {}
   /\ \A k \in DOMAIN pre.recent_frame_infos : last.ev.rtp_timestamp < k
   /\ last.ev.rtp_timestamp \notin DOMAIN recent_frame_infos_) =>
    /\ DOMAIN recent_frame_infos_ = DOMAIN pre.recent_frame_infos
    /\ num_frames_dropped_by_encoder_ = pre.num_frames_dropped_by_encoder

\* the keys the frame cache held or was given in the last call
FrameKeysPresent == DOMAIN pre.recent_frame_infos \cup (IF InsertingFrameEvent THEN {last.ev.rtp_timestamp} ELSE {})

\* C3: after every call the frame cache holds at most kMaxFrameInfoMapSize
\* entries, and a call other than Reset removes at most one entry, the one
\* with the smallest key among those present (the one just inserted included).
C3_FrameCacheBounded ==
  /\ Cardinality(DOMAIN recent_frame_infos_) <= kMaxFrameInfoMapSize
  /\ last.op # "Reset" =>
       /\ DOMAIN recent_frame_infos_ \subseteq FrameKeysPresent
       /\ \A gone \in FrameKeysPresent \ DOMAIN recent_frame_infos_ : \A k \in FrameKeysPresent : gone <= k

\* C3 witness: a frame event has evicted an entry the cache held before it.
C3_EvictionSeen == FrameEventHandled /\ \E k \in DOMAIN pre.recent_frame_infos : k \notin DOMAIN recent_frame_infos_

\* the last call had to store a first-of-pair entry
StoringEventHandled == PairingEventHandled /\ PacketKey(last.ev) \notin DOMAIN pre.packet_sent_times

\* the keys the pairing cache held or was given in the last call
PacketKeysPresent == DOMAIN pre.packet_sent_times \cup (IF StoringEventHandled THEN {PacketKey(last.ev)} ELSE {})

\* the smallest of a set of packet keys, by (rtp_timestamp, packet_id)
SmallestKey(keys) == CHOOSE k \in keys : \A x \in keys : k[1] < x[1] \/ (k[1] = x[1] /\ k[2] <= x[2])

\* C4: after every call the pairing cache holds at most
\* kMaxPacketEventTimeMapSize entries; an insert that takes it above that
\* removes exactly one entry, the one with the smallest (rtp_timestamp,
\* packet_id), which may be the one just inserted; an insert that does not
\* removes none.
C4_PacketCacheBounded ==
  /\ Cardinality(DOMAIN packet_sent_times_) <= kMaxPacketEventTimeMapSize
  /\ StoringEventHandled =>
       IF Cardinality(PacketKeysPresent) > kMaxPacketEventTimeMapSize
       THEN DOMAIN packet_sent_times_ = PacketKeysPresent \ {SmallestKey(PacketKeysPresent)}
       ELSE DOMAIN packet_sent_times_ = PacketKeysPresent

\* C4 witness: an insert into a full pairing cache evicted the key it inserted.
C4_OwnKeyEvicted == StoringEventHandled /\ Cardinality(DOMAIN pre.packet_sent_times) = kMaxPacketEventTimeMapSize /\ DOMAIN packet_sent_times_ = DOMAIN pre.packet_sent_times

\* the last call found an entry of the complementary kind for its key
ComplementaryEntryFound ==
  /\ PairingEventHandled
  /\ PacketKey(last.ev) \in DOMAIN pre.packet_sent_times
  /\ {pre.packet_sent_times[PacketKey(last.ev)][2], last.ev.type} = {PACKET_SENT_TO_NETWORK, PACKET_RECEIVED}

\* C5: with the offset available, a sent (received) event that finds the
\* received (sent) entry of its key raises the network-latency sample count by
\* one, adds one sample to the packet-latency histogram and leaves no entry
\* for the key; a sent or received event that finds no entry for its key, as
\* the third one does, credits nothing and is stored as the first of a pair
\* with its own timestamp and kind, unless the eviction of C4 removes it.
C5_NetworkLatencyPairing ==
  /\ ComplementaryEntryFound =>
       /\ network_latency_datapoints_ = pre.network_latency_datapoints + 1
       /\ SampleCount(histograms_[PACKET_LATENCY_MS_HISTO]) = SampleCount(pre.histograms[PACKET_LATENCY_MS_HISTO]) + 1
       /\ PacketKey(last.ev) \notin DOMAIN packet_sent_times_
  /\ StoringEventHandled =>
       /\ NetworkLatencyUntouched
       /\ \/ /\ PacketKey(last.ev) \in DOMAIN packet_sent_times_
             /\ packet_sent_times_[PacketKey(last.ev)] = <<last.ev.timestamp, last.ev.type>>
          \/ /\ Cardinality(PacketKeysPresent) > kMaxPacketEventTimeMapSize
             /\ PacketKey(last.ev) = SmallestKey(PacketKeysPresent)

\* C5 witness: a sent event has paired with a received entry recorded first,
\* for a key that had been paired once before.
C5_PairedInReverseOrder == ComplementaryEntryFound /\ last.ev.type = PACKET_SENT_TO_NETWORK /\ pre.network_latency_datapoints >= 1 /\ network_latency_datapoints_ = pre.network_latency_datapoints + 1

\* C6: a retransmitted event removes the pending entry of its key and credits
\* nothing; the sent event before it, finding no entry, credits nothing; and
\* the received event that follows the retransmitted one credits nothing.
C6_RetransmissionExclusion ==
  /\ (PacketEventHandled /\ last.ev.type = PACKET_RETRANSMITTED) => (PacketKey(last.ev) \notin DOMAIN packet_sent_times_ /\ NetworkLatencyUntouched)
  /\ (PacketEventHandled /\ last.ev.type = PACKET_SENT_TO_NETWORK /\ PacketKey(last.ev) \notin DOMAIN pre.packet_sent_times) => NetworkLatencyUntouched
  /\ (PacketEventHandled /\ last.ev.type = PACKET_RECEIVED /\ LastTypes(pre.packet_last_type, PacketKey(last.ev))[2] = PACKET_RETRANSMITTED) => NetworkLatencyUntouched

\* C6 witness: sent, retransmitted, received for one key, offset available.
C6_SentRetransmittedReceived == PacketEventHandled /\ last.ev.type = PACKET_RECEIVED /\ last.bounds.ok /\ LastTypes(pre.packet_last_type, PacketKey(last.ev)) = <<PACKET_SENT_TO_NETWORK, PACKET_RETRANSMITTED>>

\* C7: once a retransmitted event has been seen for a key, no sent or received
\* event for that key credits a network-latency sample before Reset.
C7_RetransmittedNeverCredited == (PacketEventHandled /\ last.ev.type \in {PACKET_SENT_TO_NETWORK, PACKET_RECEIVED} /\ PacketKey(last.ev) \in retransmitted_keys) => NetworkLatencyUntouched

\* the ids the wrap-around example returns after the sentinel
ExampleIds == <<0, 50, 100, 150, 200, 250, 266, 316>>

\* the last call incremented the stored wrap count
WrapCounted == frame_id_wrap_count_ = UInt32Inc(resolver_last.wrap_count)

\* C8: after a first call with 0xFF, which returns the sentinel, an in-order
\* stream that starts in the low zone and never skips a zone gets strictly
\* increasing ids, and the stored wrap count is incremented exactly at the
\* steps from a value >= 192 to a value <= 63, so it equals the number of
\* times the stream passed 255; on 0, 50, 100, 150, 200, 250, 10, 60 the ids
\* are 0, 50, 100, 150, 200, 250, 266, 316 and the only increment is at 10.
C8_WraparoundInOrder ==
  /\ (stream.sentinel /\ ~stream.started) => (resolver_last.id = kStartFrameId /\ frame_id_wrap_count_ = UInt32(0))
  /\ (stream.sentinel /\ stream.started /\ stream.start = kLowRange /\ stream.zones) =>
       /\ stream.steps = 1 => UInt32Less(stream.prev_id, resolver_last.id)
       /\ frame_id_wrap_count_ = UInt32(stream.passed)
       /\ WrapCounted <=> (stream.steps = 1 /\ stream.prev_v >= 192 /\ resolver_last.v <= 63)
       /\ ~WrapCounted => frame_id_wrap_count_ = resolver_last.wrap_count
  /\ stream.example >= 2 =>
       /\ resolver_last.id = UInt32(ExampleIds[stream.example - 1])
       /\ frame_id_wrap_count_ = UInt32(IF stream.example >= 8 THEN 1 ELSE 0)

\* C8 witness: the example has been fed to its end.
C8_ExampleFed == stream.example = Len(ExampleWire) /\ resolver_last.v = 60 /\ frame_id_wrap_count_ = UInt32(1)

\* C9 as claimed: on an in-order stream whose observations each advance the
\* one before by 1 to 127 (mod 256), the ids are strictly increasing.
C9_MonotonicUpTo127 == (stream.started /\ stream.steps = 1) => UInt32Less(stream.prev_id, resolver_last.id)

\* C9 as amended: on an in-order stream whose first observation is in 0..191
\* and whose observations each advance the one before by 1 to 64 (mod 256),
\* the ids are strictly increasing.
C9_MonotonicUpTo64 == (stream.started /\ stream.steps = 1 /\ stream.small /\ stream.start \in {kLowRange, kMiddleRange}) => UInt32Less(stream.prev_id, resolver_last.id)

\* C9 witness: such a stream has taken the resolver through a second wrap.
C9_WrappedTwice == stream.started /\ stream.steps = 1 /\ stream.small /\ stream.start \in {kLowRange, kMiddleRange} /\ stream.passed = 2 /\ resolver_last.v < stream.prev_v /\ frame_id_wrap_count_ = UInt32(2)

\* the last call ran the state machine
StateMachineRan == resolver_last.called /\ ~(resolver_last.first /\ resolver_last.v = 255)

\* C10: a call that runs the state machine from (range, w) on wire value v
\* follows the three-zone table.
C10_StepTable ==
  StateMachineRan =>
    LET r == resolver_last.range
        w == resolver_last.wrap_count
        v == resolver_last.v
        id == resolver_last.id
    IN CASE r = kLowRange /\ 63 < v /\ v < 192 -> range_ = kMiddleRange /\ frame_id_wrap_count_ = w /\ id = UInt32Shl8Add(w, v)
         [] r = kLowRange /\ v >= 192 -> range_ = kLowRange /\ frame_id_wrap_count_ = w /\ id = UInt32Shl8Add(UInt32Dec(w), v)
         [] r = kMiddleRange /\ v >= 192 -> range_ = kHighRange /\ frame_id_wrap_count_ = w /\ id = UInt32Shl8Add(w, v)
         [] r = kHighRange /\ v <= 63 -> range_ = kLowRange /\ frame_id_wrap_count_ = UInt32Inc(w) /\ id = UInt32Shl8Add(UInt32Inc(w), v)
         [] OTHER -> range_ = r /\ frame_id_wrap_count_ = w /\ id = UInt32Shl8Add(w, v)

\* C10 witness: an old sample (v >= 192) was resolved in the low range after
\* a wrap had been counted.
C10_OldSampleAfterWrap == StateMachineRan /\ resolver_last.range = kLowRange /\ resolver_last.v >= 192 /\ resolver_last.wrap_count = UInt32(1) /\ resolver_last.id = UInt32(resolver_last.v)

\* C11: a first call with 0xFF returns 0xFFFFFFFF and leaves the range low and
\* the stored wrap count 0; any first call consumes the special case; a 0xFF
\* on a later call goes through the state machine: in the low range it is
\* an old sample (id from wrap count - 1), in the middle range it moves the
\* range to high, and the stored wrap count is unchanged.
C11_StartupSentinel ==
  resolver_last.called =>
    /\ ~first_
    /\ (resolver_last.first /\ resolver_last.v = 255) => (resolver_last.id = kStartFrameId /\ range_ = kLowRange /\ frame_id_wrap_count_ = UInt32(0))
    /\ (~resolver_last.first /\ resolver_last.v = 255) =>
         /\ frame_id_wrap_count_ = resolver_last.wrap_count
         /\ range_ = (IF resolver_last.range = kLowRange THEN kLowRange ELSE kHighRange)
         /\ resolver_last.id = UInt32Shl8Add(IF resolver_last.range = kLowRange THEN UInt32Dec(resolver_last.wrap_count) ELSE resolver_last.wrap_count, 255)

\* C11 witness: a 0xFF on a later call was resolved by the state machine in
\* the middle range, to an id other than the start id.
C11_LaterFFResolved == resolver_last.called /\ ~resolver_last.first /\ resolver_last.v = 255 /\ resolver_last.range = kMiddleRange /\ range_ = kHighRange /\ resolver_last.id = UInt32(255)

\* bucket i (from 0) of the histogram on its own, and before the last call
Bucket(i) == histogram.buckets_[i + 1]

BucketBefore(i) == histogram_last.before[i + 1]

\* the bucket the histogram rule gives a sample
RuleBucket(s) == IF s < histogram.min_ THEN 0 ELSE IF s >= histogram.max_ THEN Len(histogram.buckets_) - 1 ELSE 1 + ((s - histogram.min_) \div histogram.width_)

\* C20: Add(s) increments exactly one bucket: bucket 0 if s < min, the last
\* bucket if s >= max, otherwise bucket 1 + floor((s - min)/width).  The
\* histogram (0, 800, 20) has 42 buckets; Add(-5) hits bucket 0, Add(799)
\* bucket 40, and Add(800) and Add(10000) bucket 41.
C20_HistogramBucketing ==
  /\ histogram_last.op = "Add" =>
       \A i \in 0..(Len(histogram.buckets_) - 1) : Bucket(i) = BucketBefore(i) + (IF i = RuleBucket(histogram_last.sample) THEN 1 ELSE 0)
  /\ (histogram.min_ = 0 /\ histogram.max_ = 800 /\ histogram.width_ = 20) =>
       /\ Len(histogram.buckets_) = 42
       /\ (histogram_last.op = "Add" /\ histogram_last.sample = -5) => Bucket(0) = BucketBefore(0) + 1
       /\ (histogram_last.op = "Add" /\ histogram_last.sample = 799) => Bucket(40) = BucketBefore(40) + 1
       /\ (histogram_last.op = "Add" /\ histogram_last.sample \in {800, 10000}) => Bucket(41) = BucketBefore(41) + 1

\* C20 witness: Add(-5) after Add(799) on the histogram (0, 800, 20).
C20_UnderflowAfterInterior == histogram.max_ = 800 /\ histogram_last.op = "Add" /\ histogram_last.sample = -5 /\ BucketBefore(40) = 1 /\ Bucket(0) = 1

\* the engine's members, the start time aside, as the last call found them
EngineUntouched == [EngineState EXCEPT !.packet_last_type = pre.packet_last_type] = pre

\* C12: after Reset, whatever came before, the counters, caches, latency
\* totals, first/last event times, last receiver response time and histogram
\* counts are those of a freshly constructed engine; the handlers read no
\* other member but the media type, so the events that follow are handled
\* as on a fresh engine.
C12_ResetIsolation ==
  last.op = "Reset" =>
    /\ frame_stats_ = EmptyMap /\ packet_stats_ = EmptyMap
    /\ total_network_latency_ = 0 /\ network_latency_datapoints_ = 0
    /\ total_e2e_latency_ = 0 /\ e2e_latency_datapoints_ = 0
    /\ num_frames_dropped_by_encoder_ = 0 /\ num_frames_late_ = 0
    /\ recent_frame_infos_ = EmptyMap /\ packet_sent_times_ = EmptyMap
    /\ first_event_time_ = NullTicks /\ last_event_time_ = NullTicks /\ last_response_received_time_ = NullTicks
    /\ \A n \in HistogramNames : histograms_[n] = SimpleHistogram(0, 800, 20)
    /\ event_media_type_ = VIDEO_EVENT

\* C12 witness: Reset found frames cached, a packet pending, an end-to-end
\* sample credited, a receiver response and a late frame recorded.
C12_ResetAfterHistory == last.op = "Reset" /\ pre.recent_frame_infos # EmptyMap /\ pre.packet_sent_times # EmptyMap /\ pre.e2e_latency_datapoints = 1 /\ pre.last_response_received_time # NullTicks /\ SampleCount(pre.histograms[PLAYOUT_DELAY_MS_HISTO]) = 1 /\ pre.first_event_time # NullTicks

\* the last call was an event of the media type the engine is not set to
OtherMediaEvent == last.op \in {"OnReceiveFrameEvent", "OnReceivePacketEvent"} /\ last.ev.media_type # event_media_type_

\* C13: a frame or packet event of another media type than the engine's
\* leaves every member of the engine as it was.
C13_OtherMediaIgnored == OtherMediaEvent => EngineUntouched

\* C13 witness: a playout event of the other media type, with the offset
\* available, came for a frame that is cached with its capture time.
C13_OtherMediaPlayout == OtherMediaEvent /\ last.ev.type = FRAME_PLAYOUT /\ last.bounds.ok /\ last.ev.rtp_timestamp \in DOMAIN recent_frame_infos_ /\ ~is_null(recent_frame_infos_[last.ev.rtp_timestamp].capture_time)

\* the per-kind counters of a kind, zero when the kind was not seen
FrameCounter(stats, type) == IF type \in DOMAIN stats THEN stats[type] ELSE [event_counter |-> 0, sum_size |-> 0, sum_delay |-> 0]

PacketCounter(stats, type) == IF type \in DOMAIN stats THEN stats[type] ELSE [event_counter |-> 0, sum_size |-> 0]

\* the last call counted its event: count + 1, size and delay added
EventCounted ==
  IF last.op = "OnReceiveFrameEvent"
  THEN LET c == FrameCounter(pre.frame_stats, last.ev.type)
       IN FrameCounter(frame_stats_, last.ev.type) = [event_counter |-> c.event_counter + 1, sum_size |-> c.sum_size + last.ev.size, sum_delay |-> c.sum_delay + last.ev.delay_delta]
  ELSE LET c == PacketCounter(pre.packet_stats, last.ev.type)
       IN PacketCounter(packet_stats_, last.ev.type) = [event_counter |-> c.event_counter + 1, sum_size |-> c.sum_size + last.ev.size]

\* the last call was a receiver event handled while the estimator had no answer
ReceiverEventWithoutOffset == (FrameEventHandled \/ PacketEventHandled) /\ last.ev.type \in {FRAME_DECODED, FRAME_PLAYOUT, FRAME_ACK_SENT, PACKET_RECEIVED} /\ ~last.bounds.ok

\* C14: a receiver event handled without an offset still counts in its
\* kind's counter, and leaves first/last event time, last receiver response
\* time, the frame-transmission histogram, the end-to-end total and count and
\* the network-latency total, count and histogram as they were.
C14_MissingOffset ==
  ReceiverEventWithoutOffset =>
    /\ EventCounted
    /\ first_event_time_ = pre.first_event_time /\ last_event_time_ = pre.last_event_time
    /\ last_response_received_time_ = pre.last_response_received_time
    /\ histograms_[FRAME_LATENCY_MS_HISTO] = pre.histograms[FRAME_LATENCY_MS_HISTO]
    /\ total_e2e_latency_ = pre.total_e2e_latency /\ e2e_latency_datapoints_ = pre.e2e_latency_datapoints
    /\ NetworkLatencyUntouched

\* C14 witness: a playout without an offset for a frame cached with its
\* capture time, after a receiver event that had the offset.
C14_PlayoutWithoutOffset == ReceiverEventWithoutOffset /\ last.ev.type = FRAME_PLAYOUT /\ last.ev.rtp_timestamp \in DOMAIN pre.recent_frame_infos /\ ~is_null(pre.recent_frame_infos[last.ev.rtp_timestamp].capture_time) /\ pre.last_response_received_time # NullTicks /\ pre.first_event_time # NullTicks

\* the last call credited an end-to-end sample
E2ECredited == e2e_latency_datapoints_ # pre.e2e_latency_datapoints \/ total_e2e_latency_ # pre.total_e2e_latency

\* C15: a playout event credits an end-to-end sample only if the offset is
\* available and the entry cached for its rtp_timestamp has capture_time set;
\* a frame whose entry holds only an encode time credits none.
C15_E2ENeedsCaptureTime ==
  (FrameEventHandled /\ last.ev.type = FRAME_PLAYOUT /\ E2ECredited) =>
    /\ last.bounds.ok
    /\ last.ev.rtp_timestamp \in DOMAIN pre.recent_frame_infos
    /\ ~is_null(pre.recent_frame_infos[last.ev.rtp_timestamp].capture_time)

\* the last call was a capture-end, ack-sent or playout for a frame not cached
EntryMissing == FrameEventHandled /\ last.ev.type \in {FRAME_CAPTURE_END, FRAME_ACK_SENT, FRAME_PLAYOUT} /\ last.ev.rtp_timestamp \notin DOMAIN pre.recent_frame_infos

\* C16: a capture-end, ack-sent or playout event for a frame without a cache
\* entry adds nothing to the capture-latency and frame-transmission
\* histograms nor to the end-to-end total, creates no entry, and is counted.
C16_MissingEntry ==
  EntryMissing =>
    /\ histograms_[CAPTURE_LATENCY_MS_HISTO] = pre.histograms[CAPTURE_LATENCY_MS_HISTO]
    /\ histograms_[FRAME_LATENCY_MS_HISTO] = pre.histograms[FRAME_LATENCY_MS_HISTO]
    /\ total_e2e_latency_ = pre.total_e2e_latency /\ e2e_latency_datapoints_ = pre.e2e_latency_datapoints
    /\ recent_frame_infos_ = pre.recent_frame_infos
    /\ EventCounted

\* C16 witness: a playout with the offset available came for a frame that is
\* not cached while another frame is.
C16_PlayoutWithoutEntry == EntryMissing /\ last.ev.type = FRAME_PLAYOUT /\ last.bounds.ok /\ pre.recent_frame_infos # EmptyMap

\* the bucket of a latency histogram (0, 800, 20) that holds a duration given
\* in microseconds: bucket 0 below zero, bucket 41 from 800 ms on
LatencyBucket(delta) == IF delta < 0 THEN 0 ELSE IF delta >= 800000 THEN 41 ELSE 1 + (delta \div 1000) \div 20

\* a histogram with one more sample in bucket i (from 0)
WithSampleIn(h, i) == [h EXCEPT !.buckets_[i + 1] = @ + 1]

\* the last call was an encoded event for a frame that is cached
EncodedForCachedFrame == FrameEventHandled /\ last.ev.type = FRAME_ENCODED /\ last.ev.rtp_timestamp \in DOMAIN pre.recent_frame_infos

\* the last call was the encoded event of the example: frame 100 captured,
\* its capture ended 10 ms and the frame encoded 25 ms later, nothing else
ExampleEncoded ==
  /\ EncodedForCachedFrame /\ ncalls = 3 /\ last.ev.rtp_timestamp = 100
  /\ FrameCounter(pre.frame_stats, FRAME_CAPTURE_BEGIN).event_counter = 1
  /\ FrameCounter(pre.frame_stats, FRAME_CAPTURE_END).event_counter = 1
  /\ pre.recent_frame_infos[100].capture_end_time = pre.recent_frame_infos[100].capture_time + 10000
  /\ last.ev.timestamp = pre.recent_frame_infos[100].capture_time + 25000

\* C17: an encoded event at t for a cached frame sets the entry's encode_time
\* to t and, if the entry has a capture-end time c, adds exactly one sample
\* t - c to the encode-latency histogram, else none; in the example the
\* histogram then holds exactly one sample, in the bucket of 15 ms.
C17_EncodeLatency ==
  /\ EncodedForCachedFrame =>
       LET entry == pre.recent_frame_infos[last.ev.rtp_timestamp]
       IN /\ recent_frame_infos_ = [pre.recent_frame_infos EXCEPT ![last.ev.rtp_timestamp].encode_time = last.ev.timestamp]
          /\ histograms_[ENCODE_LATENCY_MS_HISTO] = (IF entry.capture_end_time # NullTicks THEN WithSampleIn(pre.histograms[ENCODE_LATENCY_MS_HISTO], LatencyBucket(last.ev.timestamp - entry.capture_end_time)) ELSE pre.histograms[ENCODE_LATENCY_MS_HISTO])
  /\ ExampleEncoded => (SampleCount(histograms_[ENCODE_LATENCY_MS_HISTO]) = 1 /\ histograms_[ENCODE_LATENCY_MS_HISTO].buckets_[1 + LatencyBucket(15000)] = 1)

\* C17 witness: the example has been fed.
C17_ExampleFed == ExampleEncoded /\ recent_frame_infos_[100].encode_time = last.ev.timestamp

\* the last call was a capture-end at e for a frame cached with its
\* capture-begin time b, e > b
CaptureEndAfterBegin == FrameEventHandled /\ last.ev.type = FRAME_CAPTURE_END /\ last.ev.rtp_timestamp \in DOMAIN pre.recent_frame_infos /\ pre.recent_frame_infos[last.ev.rtp_timestamp].capture_time # NullTicks /\ last.ev.timestamp > pre.recent_frame_infos[last.ev.rtp_timestamp].capture_time

\* C18 as claimed: a capture-end at e > b for a frame cached with capture
\* time b adds exactly one sample to the capture-latency histogram, in the
\* underflow bucket.
C18_CaptureLatencyUnderflow == CaptureEndAfterBegin => histograms_[CAPTURE_LATENCY_MS_HISTO] = WithSampleIn(pre.histograms[CAPTURE_LATENCY_MS_HISTO], 0)

\* C18 as amended: the same for e at least 1 ms after b; a sample b - e above
\* -1 ms is cut to 0 ms and lands in bucket 1.
C18_CaptureLatencyUnderflowFrom1Ms ==
  CaptureEndAfterBegin =>
    histograms_[CAPTURE_LATENCY_MS_HISTO] = WithSampleIn(pre.histograms[CAPTURE_LATENCY_MS_HISTO], IF last.ev.timestamp - pre.recent_frame_infos[last.ev.rtp_timestamp].capture_time >= 1000 THEN 0 ELSE 1)

\* C18 witness: a capture took 5 ms and its sample is in the underflow bucket.
C18_FiveMsCapture == CaptureEndAfterBegin /\ last.ev.timestamp - pre.recent_frame_infos[last.ev.rtp_timestamp].capture_time = 5000 /\ histograms_[CAPTURE_LATENCY_MS_HISTO].buckets_[1] = pre.histograms[CAPTURE_LATENCY_MS_HISTO].buckets_[1] + 1

\* the entries the last call evicted from the frame cache
EvictedKeys == FrameKeysPresent \ DOMAIN recent_frame_infos_

\* the encode_time of an entry the last call evicted
EvictedEncodeTime(k) == IF k \in DOMAIN pre.recent_frame_infos THEN pre.recent_frame_infos[k].encode_time ELSE IF last.ev.type = FRAME_ENCODED THEN last.ev.timestamp ELSE NullTicks

\* C19: a call other than Reset raises the dropped-by-encoder counter by the
\* number of entries it evicts whose encode_time was never set, so by one for
\* such an eviction and by nothing otherwise; Reset sets the counter to zero.
C19_DroppedByEncoder ==
  /\ last.op = "Reset" => num_frames_dropped_by_encoder_ = 0
  /\ last.op \in {"OnReceiveFrameEvent", "OnReceivePacketEvent"} =>
       /\ num_frames_dropped_by_encoder_ = pre.num_frames_dropped_by_encoder + Cardinality({k \in EvictedKeys : EvictedEncodeTime(k) = NullTicks})
       /\ Cardinality(EvictedKeys) <= 1

\* C19 witness: an encoded frame was evicted after a frame had been counted
\* as dropped, and the counter stayed.
C19_EncodedFrameEvicted == FrameEventHandled /\ pre.num_frames_dropped_by_encoder >= 1 /\ num_frames_dropped_by_encoder_ = pre.num_frames_dropped_by_encoder /\ \E k \in EvictedKeys : k \in DOMAIN pre.recent_frame_infos /\ pre.recent_frame_infos[k].encode_time # NullTicks

\* C21: the bucket counts of a histogram add up to the number of Add calls
\* made since the last Reset, or since construction; the number of buckets
\* is (max - min)/width + 2 throughout; Reset leaves every bucket at zero.
C21_CountConservation ==
  /\ SampleCount(histogram) = histogram_last.adds
  /\ Len(histogram.buckets_) = ((histogram.max_ - histogram.min_) \div histogram.width_) + 2
  /\ histogram_last.op = "Reset" => \A i \in 0..(Len(histogram.buckets_) - 1) : Bucket(i) = 0

\* C21 witness: an Add, a Reset, and an Add again.
C21_AddAfterReset == histogram_last.op = "Add" /\ histogram_last.calls = 3 /\ histogram_last.adds = 1 /\ SampleCount(histogram) = 1

\* the last call was a snapshot
SnapshotHandled == last.op = "GetStats"

\* C22: GetStats leaves every member of the engine as it was, so the events
\* that follow are handled as if it had not been called, and a second
\* GetStats at the same clock reading returns an equal snapshot.
C22_SnapshotReadOnly == SnapshotHandled => (EngineUntouched /\ (snapshot.again => snapshot.value = snapshot.before))

\* C22 witness: two snapshots in a row at one clock reading, two seconds
\* after construction, with a network-latency sample credited before.
C22_SnapshotTwice == SnapshotHandled /\ snapshot.again /\ snapshot.now # start_time_ /\ AVG_NETWORK_LATENCY_MS \in DOMAIN snapshot.value.stats

\* C23: the snapshot has an average network latency exactly when a
\* sent/received pair was credited since Reset, an average end-to-end
\* latency exactly when an end-to-end sample was credited, and a time since
\* the last receiver response exactly when a response time is recorded.
C23_SnapshotOmission ==
  SnapshotHandled =>
    /\ AVG_NETWORK_LATENCY_MS \in DOMAIN snapshot.value.stats <=> network_latency_datapoints_ >= 1
    /\ AVG_E2E_LATENCY_MS \in DOMAIN snapshot.value.stats <=> e2e_latency_datapoints_ >= 1
    /\ MS_SINCE_LAST_RECEIVER_RESPONSE \in DOMAIN snapshot.value.stats <=> last_response_received_time_ # NullTicks

\* C23 witness: a snapshot with an average network latency and a time since
\* the last response, and without an average end-to-end latency.
C23_NetworkWithoutE2E == SnapshotHandled /\ AVG_NETWORK_LATENCY_MS \in DOMAIN snapshot.value.stats /\ MS_SINCE_LAST_RECEIVER_RESPONSE \in DOMAIN snapshot.value.stats /\ AVG_E2E_LATENCY_MS \notin DOMAIN snapshot.value.stats /\ e2e_latency_datapoints_ = 0

\* C24: the snapshot has a packet-loss fraction exactly when a
\* sent-to-network event was counted since Reset; it is retransmitted /
\* (sent + retransmitted), its denominator is at least 1 and it lies in
\* [0, 1]; and no statistic of the snapshot has a zero or negative divisor.
C24_PacketLossFraction ==
  SnapshotHandled =>
    LET sent == PacketCounter(packet_stats_, PACKET_SENT_TO_NETWORK).event_counter
        retransmitted == PacketCounter(packet_stats_, PACKET_RETRANSMITTED).event_counter
        stats == snapshot.value.stats
    IN /\ PACKET_LOSS_FRACTION \in DOMAIN stats <=> sent >= 1
       /\ PACKET_LOSS_FRACTION \in DOMAIN stats =>
            /\ stats[PACKET_LOSS_FRACTION] = [num |-> retransmitted, den |-> sent + retransmitted]
            /\ stats[PACKET_LOSS_FRACTION].den >= 1
            /\ 0 <= stats[PACKET_LOSS_FRACTION].num /\ stats[PACKET_LOSS_FRACTION].num <= stats[PACKET_LOSS_FRACTION].den
       /\ \A stat \in DOMAIN stats : stats[stat].den > 0

\* C24 witness: a snapshot taken at construction time, so after no time at
\* all, with one packet sent and retransmitted: the fraction is 1/2.
C24_HalfLost == SnapshotHandled /\ snapshot.now = start_time_ /\ PACKET_LOSS_FRACTION \in DOMAIN snapshot.value.stats /\ snapshot.value.stats[PACKET_LOSS_FRACTION] = [num |-> 1, den |-> 2] /\ TRANSMISSION_KBPS \in DOMAIN snapshot.value.stats

\* the sent and the received time of the pair the last call completed
PairSentTime == IF last.ev.type = PACKET_SENT_TO_NETWORK THEN last.ev.timestamp ELSE pre.packet_sent_times[PacketKey(last.ev)][1]

PairReceivedTime == IF last.ev.type = PACKET_RECEIVED THEN last.ev.timestamp ELSE pre.packet_sent_times[PacketKey(last.ev)][1]

\* C26: a pair of a sent event at s and a received event at r is credited
\* (r - (lower + upper)/2) - s whichever came first, with the bounds the
\* estimator answers when the second event is handled.
C26_PairingValue ==
  ComplementaryEntryFound =>
    LET latency == (PairReceivedTime - ((last.bounds.lower + last.bounds.upper) \div 2)) - PairSentTime
    IN /\ total_network_latency_ = pre.total_network_latency + latency
       /\ histograms_[PACKET_LATENCY_MS_HISTO] = WithSampleIn(pre.histograms[PACKET_LATENCY_MS_HISTO], LatencyBucket(latency))

\* C26 witness: the received event was stored first, under other bounds than
\* those answered when the sent event completed the pair.
C26_ReceivedFirstOtherBounds == ComplementaryEntryFound /\ last.ev.type = PACKET_SENT_TO_NETWORK /\ last.bounds = LaterOffsetBounds /\ total_network_latency_ = (25000 - 5000) - last.ev.timestamp

\* the last call found an entry of its own kind for its key
SameKindEntryFound == PairingEventHandled /\ PacketKey(last.ev) \in DOMAIN pre.packet_sent_times /\ pre.packet_sent_times[PacketKey(last.ev)][2] = last.ev.type

\* C27: a sent or received event that finds an entry of its own kind leaves
\* the entry as it is and credits nothing, so the event of the other kind
\* that comes later pairs with the time stored first.
C27_SameKindKept ==
  /\ SameKindEntryFound => (packet_sent_times_ = pre.packet_sent_times /\ NetworkLatencyUntouched)
  /\ (ComplementaryEntryFound /\ last.ev.type = PACKET_RECEIVED) => total_network_latency_ = pre.total_network_latency + (last.ev.timestamp - ReceiverOffset(last.bounds)) - pre.packet_sent_times[PacketKey(last.ev)][1]

\* C27 witness: a second sent event with another timestamp found the entry
\* of the first and left it.
C27_SecondSentIgnored == SameKindEntryFound /\ last.ev.type = PACKET_SENT_TO_NETWORK /\ last.ev.timestamp # pre.packet_sent_times[PacketKey(last.ev)][1] /\ packet_sent_times_[PacketKey(last.ev)][1] = pre.packet_sent_times[PacketKey(last.ev)][1]

\* C28: a sent or received event that finds no entry for its key stores its
\* timestamp and kind for the key whether or not the estimator has an answer.
C28_FirstOfPairAlwaysStored ==
  (PacketEventHandled /\ last.ev.type \in {PACKET_SENT_TO_NETWORK, PACKET_RECEIVED} /\ PacketKey(last.ev) \notin DOMAIN pre.packet_sent_times) =>
    (PacketKey(last.ev) \in DOMAIN packet_sent_times_ /\ packet_sent_times_[PacketKey(last.ev)] = <<last.ev.timestamp, last.ev.type>>)

\* the constructor's arguments miss the precondition: the range is not a
\* multiple of the width, or the width is not positive
PreconditionMissed == construction.width <= 0 \/ Int64Rem(construction.max - construction.min, construction.width) # 0

\* the constructor's arguments meet the precondition
PreconditionMet == construction.width > 0 /\ construction.max - construction.min > 0 /\ (construction.max - construction.min) % construction.width = 0

\* C25: a construction whose arguments miss the precondition ends in a fatal
\* error and yields no histogram; one whose arguments meet it yields a
\* histogram of (max - min)/width + 2 buckets, all zero.
C25_ConstructionPrecondition ==
  (construction.attempted /\ histogram_last.calls = 0) =>
    /\ PreconditionMissed => (construction.outcome # "constructed" /\ histogram = NoHistogram)
    /\ PreconditionMet => (construction.outcome = "constructed" /\ histogram.buckets_ = [i \in 1..(((construction.max - construction.min) \div construction.width) + 2) |-> 0])

\* the last call was an encoded event for a frame that is not cached
EncodedBeforeCapture == FrameEventHandled /\ last.ev.type = FRAME_ENCODED /\ last.ev.rtp_timestamp \notin DOMAIN pre.recent_frame_infos

\* an entry that an encoded event created: encoded, never captured
CreatedByEncoded(info) == info.capture_time = NullTicks /\ info.encode_time # NullTicks

\* C29: an encoded event at t for a frame that is not cached adds no sample to
\* the encode-latency histogram; if the cache took the entry, it holds t as
\* its encode_time and no capture or capture-end time, and the other entries
\* are as they were; if the cache did not keep it, the cache is as it was.
\* The eviction of such an entry, at once or by a later call, leaves the
\* dropped-by-encoder counter as it was.
C29_EncodedBeforeCapture ==
  /\ EncodedBeforeCapture =>
       /\ histograms_[ENCODE_LATENCY_MS_HISTO] = pre.histograms[ENCODE_LATENCY_MS_HISTO]
       /\ IF last.ev.rtp_timestamp \in DOMAIN recent_frame_infos_
          THEN /\ recent_frame_infos_[last.ev.rtp_timestamp] = [capture_time |-> NullTicks, capture_end_time |-> NullTicks, encode_time |-> last.ev.timestamp]
               /\ \A k \in DOMAIN recent_frame_infos_ \ {last.ev.rtp_timestamp} : k \in DOMAIN pre.recent_frame_infos /\ recent_frame_infos_[k] = pre.recent_frame_infos[k]
          ELSE /\ recent_frame_infos_ = pre.recent_frame_infos
               /\ num_frames_dropped_by_encoder_ = pre.num_frames_dropped_by_encoder
  /\ (FrameEventHandled /\ \E k \in DOMAIN pre.recent_frame_infos \ DOMAIN recent_frame_infos_ : CreatedByEncoded(pre.recent_frame_infos[k])) =>
       num_frames_dropped_by_encoder_ = pre.num_frames_dropped_by_encoder

\* C29 witness: an entry that an encoded event created two calls ago or more
\* is evicted by a capture-begin event, and the counter stays.
C29_EncodedFirstEvicted ==
  /\ FrameEventHandled /\ last.ev.type = FRAME_CAPTURE_BEGIN
  /\ \E k \in DOMAIN pre.recent_frame_infos \ DOMAIN recent_frame_infos_ : CreatedByEncoded(pre.recent_frame_infos[k]) /\ pre.recent_frame_infos[k].capture_end_time = NullTicks
  /\ num_frames_dropped_by_encoder_ = pre.num_frames_dropped_by_encoder

\* the last call was an ack-sent event
AckSent == FrameEventHandled /\ last.ev.type = FRAME_ACK_SENT

\* the ack-sent event of the last call is for a frame cached with its
\* encode_time, and the offset provider succeeded
AckSampled == last.ev.rtp_timestamp \in DOMAIN pre.recent_frame_infos /\ pre.recent_frame_infos[last.ev.rtp_timestamp].encode_time # NullTicks /\ last.bounds.ok

\* C30: an ack-sent event at receiver time t adds exactly one sample
\* (t - offset) - encode_time to the frame-transmission histogram if the frame
\* is cached with its encode_time and the offset provider succeeds, and
\* leaves that histogram as it was otherwise; it never changes the frame
\* cache.  The offset is the midpoint of the provider's bounds.
C30_TransmissionLatency ==
  AckSent =>
    /\ recent_frame_infos_ = pre.recent_frame_infos
    /\ histograms_[FRAME_LATENCY_MS_HISTO] =
         (IF AckSampled
          THEN WithSampleIn(pre.histograms[FRAME_LATENCY_MS_HISTO], LatencyBucket((last.ev.timestamp - (last.bounds.lower + last.bounds.upper) \div 2) - pre.recent_frame_infos[last.ev.rtp_timestamp].encode_time))
          ELSE pre.histograms[FRAME_LATENCY_MS_HISTO])

\* C30 witness: an ack-sent event added a sample of 12 ms for frame 1, encoded
\* at 25 ms and acknowledged at 40 ms receiver time with an offset of 3 ms.
C30_AckSampled == AckSent /\ AckSampled /\ last.ev.rtp_timestamp = 1 /\ histograms_[FRAME_LATENCY_MS_HISTO].buckets_[1 + LatencyBucket(12000)] = pre.histograms[FRAME_LATENCY_MS_HISTO].buckets_[1 + LatencyBucket(12000)] + 1

\* the last call was a playout event
PlayoutHandled == FrameEventHandled /\ last.ev.type = FRAME_PLAYOUT

\* a duration in whole milliseconds, cut toward zero
WholeMs(delta) == IF delta >= 0 THEN delta \div 1000 ELSE -((-delta) \div 1000)

\* the frames-played-late counter went up by one iff the playout was late
LateCounted == num_frames_late_ = pre.num_frames_late + (IF last.ev.delay_delta <= 0 THEN 1 ELSE 0)

\* C31 as claimed: a playout event adds exactly one sample, its delay_delta in
\* ms, to the playout-delay histogram, whatever the offset provider answers
\* and whatever is cached, and raises the frames-played-late counter by one
\* iff its delay_delta is at most zero.
C31_PlayoutHandling ==
  PlayoutHandled =>
    /\ histograms_[PLAYOUT_DELAY_MS_HISTO] = WithSampleIn(pre.histograms[PLAYOUT_DELAY_MS_HISTO], LatencyBucket(last.ev.delay_delta))
    /\ LateCounted

\* C31 as amended: the sample is the delay_delta in whole milliseconds, cut
\* toward zero, so a delay above -1 ms and below zero is sampled as 0 ms.
C31_PlayoutHandlingWholeMs ==
  PlayoutHandled =>
    /\ histograms_[PLAYOUT_DELAY_MS_HISTO] = WithSampleIn(pre.histograms[PLAYOUT_DELAY_MS_HISTO], LatencyBucket(1000 * WholeMs(last.ev.delay_delta)))
    /\ LateCounted

\* C31 witness: a playout exactly on time, for a frame that is not cached,
\* was counted as late and sampled.
C31_OnTimePlayout == PlayoutHandled /\ last.ev.delay_delta = 0 /\ pre.recent_frame_infos = EmptyMap /\ num_frames_late_ = pre.num_frames_late + 1 /\ SampleCount(histograms_[PLAYOUT_DELAY_MS_HISTO]) = SampleCount(pre.histograms[PLAYOUT_DELAY_MS_HISTO]) + 1

\* the number of events of a kind in a history
RECURSIVE CountOf(_, _)
CountOf(events, type) == IF events = <<>> THEN 0 ELSE (IF events[1].type = type THEN 1 ELSE 0) + CountOf(Tail(events), type)

\* the run since Reset is the capture-begin, capture-end and encoded event of
\* one frame
OneFrameCapturedAndEncoded == Len(history.events) = 3 /\ history.events[1].type = FRAME_CAPTURE_BEGIN /\ history.events[2].type = FRAME_CAPTURE_END /\ history.events[3].type = FRAME_ENCODED /\ \A i \in 1..3 : history.events[i].rtp_timestamp = history.events[1].rtp_timestamp

\* C32: a snapshot's frames-captured value is the number of capture-end
\* events of the engine's media type handled since the last Reset, whether or
\* not their frames are cached or were begun, and is absent when that number
\* is zero; after capture-begin, capture-end and encoded of one frame it is 1.
C32_FramesCaptured ==
  SnapshotHandled =>
    LET captured == CountOf(history.events, FRAME_CAPTURE_END)
        stats == snapshot.value.stats
    IN /\ NUM_FRAMES_CAPTURED \in DOMAIN stats <=> captured # 0
       /\ NUM_FRAMES_CAPTURED \in DOMAIN stats => stats[NUM_FRAMES_CAPTURED] = [num |-> captured, den |-> 1]
       /\ OneFrameCapturedAndEncoded => (NUM_FRAMES_CAPTURED \in DOMAIN stats /\ stats[NUM_FRAMES_CAPTURED] = [num |-> 1, den |-> 1])

\* C32 witness: a snapshot reports one frame captured although its capture
\* began before the cache evicted it.
C32_CapturedAfterEviction == SnapshotHandled /\ num_frames_dropped_by_encoder_ = 1 /\ history.events[Len(history.events)].type = FRAME_CAPTURE_END /\ history.events[Len(history.events)].rtp_timestamp \notin DOMAIN recent_frame_infos_ /\ snapshot.value.stats[NUM_FRAMES_CAPTURED] = [num |-> 1, den |-> 1]

\* C33: the start id 0xFFFFFFFF is returned only by a first call whose wire
\* value is 0xFF; no call that runs the state machine returns it.
C33_SentinelReserved == (resolver_last.called /\ resolver_last.id = kStartFrameId) => (resolver_last.first /\ resolver_last.v = 255)

\* the last call handled an event of the engine's media type
EventHandled == FrameEventHandled \/ PacketEventHandled

\* the kinds of event that come from the receiver
ReceiverKinds == {FRAME_DECODED, FRAME_PLAYOUT, FRAME_ACK_SENT, PACKET_RECEIVED}

\* C34: a decoded, playout, ack-sent or packet-received event handled while
\* the offset provider answers sets last_response_received_time_ to the
\* event's timestamp minus the midpoint of the bounds, whether that is later
\* or earlier than the value before; an event of a sender kind leaves it as
\* it was.
C34_ReceiverResponseTime ==
  EventHandled =>
    /\ (last.ev.type \in ReceiverKinds /\ last.bounds.ok) => last_response_received_time_ = last.ev.timestamp - (last.bounds.lower + last.bounds.upper) \div 2
    /\ last.ev.type \notin ReceiverKinds => last_response_received_time_ = pre.last_response_received_time

\* C34 witness: an ack-sent event replaced the response time of a playout by
\* an earlier one.
C34_EarlierResponse == EventHandled /\ last.ev.type = FRAME_ACK_SENT /\ last.bounds.ok /\ pre.last_response_received_time # NullTicks /\ last_response_received_time_ < pre.last_response_received_time

\* the stream fed so far is in order: no start-up 0xFF, a first value in
\* 0..191, and every advance between 1 and 64
InOrderFrom0To191 == stream.started /\ ~stream.sentinel /\ stream.start \in {kLowRange, kMiddleRange} /\ stream.small

\* C35: on a stream whose first wire value is in 0..191 and whose later
\* values each advance the one before by 1 to 64 (mod 256), every id returned
\* is the first value plus the advances made so far, and the stored wrap
\* count is the number of times the stream has passed 255.
C35_InOrderExact ==
  InOrderFrom0To191 =>
    /\ resolver_last.id = UInt32(stream.unwrapped)
    /\ frame_id_wrap_count_ = UInt32(stream.passed)
    /\ stream.unwrapped = 256 * stream.passed + resolver_last.v

\* C35 witness: such a stream has passed 255 twice, the second time by an
\* advance of 64 from 192 to 0.
C35_SecondWrapBy64 == InOrderFrom0To191 /\ stream.passed = 2 /\ stream.prev_v = 192 /\ resolver_last.v = 0 /\ resolver_last.id = UInt32(512)

\* a sample of the reordered stream was just resolved
Delivered == resolver_last.called /\ reorder.position >= 1

\* no sample delivered so far was displaced by n positions or more, and none
\* of the overtaken ids would be if it arrived next
DisplacedByFewerThan(n) == reorder.displaced < n /\ \A q \in reorder.pending : reorder.position - q < n

\* C36 as claimed: on the stream of frame ids 0, 1, 2, ... sent as id mod 256
\* with every sample displaced by fewer than 64 positions, every sample is
\* resolved to its frame id.
C36_ReorderTolerance == (Delivered /\ DisplacedByFewerThan(64)) => resolver_last.id = UInt32(reorder.id)

\* C36 as amended: the same with every sample displaced by fewer than 33
\* positions.
C36_ReorderToleranceBelow33 == (Delivered /\ DisplacedByFewerThan(33)) => resolver_last.id = UInt32(reorder.id)

\* C36 witness: with no sample displaced by 33 positions or more, a sample
\* of the high zone arrived after the wrap had been counted and was resolved
\* to its frame id.
C36_HighStragglerAfterWrap == Delivered /\ DisplacedByFewerThan(33) /\ reorder.displaced = 32 /\ resolver_last.range = kLowRange /\ resolver_last.v >= kHighRangeThreshold /\ frame_id_wrap_count_ = UInt32(1) /\ resolver_last.id = UInt32(reorder.id)

\* the range before and after the last call
RangeStep == <<resolver_last.range, range_>>

\* C37: a call never lowers the stored wrap count and changes it only by +1,
\* on a step of the range from high to low; the range changes only from low
\* to middle, from middle to high and from high to low; and the low 8 bits
\* of the id returned are the wire value passed in.
C37_ResolverInvariants ==
  resolver_last.called =>
    /\ ~UInt32Less(frame_id_wrap_count_, resolver_last.wrap_count)
    /\ frame_id_wrap_count_ # resolver_last.wrap_count =>
         /\ frame_id_wrap_count_ = <<resolver_last.wrap_count[1], resolver_last.wrap_count[2] + 1>>
         /\ RangeStep = <<kHighRange, kLowRange>>
    /\ range_ # resolver_last.range => RangeStep \in {<<kLowRange, kMiddleRange>>, <<kMiddleRange, kHighRange>>, <<kHighRange, kLowRange>>}
    /\ resolver_last.id[2] % 256 = resolver_last.v

\* C37 witness: a second wrap was counted on a step from high to low.
C37_SecondWrapCounted == resolver_last.called /\ RangeStep = <<kHighRange, kLowRange>> /\ resolver_last.wrap_count = UInt32(1) /\ frame_id_wrap_count_ = UInt32(2) /\ resolver_last.id = UInt32(512 + resolver_last.v)

\* the timestamps bookkept since construction or Reset
BookkeptSoFar == UNION {history.events[i].times : i \in 1..Len(history.events)}

\* C38: first_event_time_ is the least and last_event_time_ the greatest of
\* the timestamps bookkept since construction or Reset (a sender event's as
\* given, a receiver event's minus the offset when there is one), so the
\* first is at most the last; both are unset when nothing was bookkept, and
\* a snapshot reports both or neither.
C38_FirstLastEventTime ==
  /\ BookkeptSoFar = {} => (first_event_time_ = NullTicks /\ last_event_time_ = NullTicks)
  /\ BookkeptSoFar # {} =>
       /\ first_event_time_ \in BookkeptSoFar /\ \A t \in BookkeptSoFar : first_event_time_ <= t
       /\ last_event_time_ \in BookkeptSoFar /\ \A t \in BookkeptSoFar : t <= last_event_time_
       /\ first_event_time_ <= last_event_time_
  /\ SnapshotHandled =>
       /\ FIRST_EVENT_TIME_MS \in DOMAIN snapshot.value.stats <=> BookkeptSoFar # {}
       /\ LAST_EVENT_TIME_MS \in DOMAIN snapshot.value.stats <=> BookkeptSoFar # {}
       /\ BookkeptSoFar # {} => (snapshot.value.stats[FIRST_EVENT_TIME_MS] = [num |-> first_event_time_, den |-> 1000] /\ snapshot.value.stats[LAST_EVENT_TIME_MS] = [num |-> last_event_time_, den |-> 1000])

\* C38 witness: a receiver event with an offset came after later ones and
\* lowered first_event_time_ to its time in the sender's clock, leaving
\* last_event_time_ as it was.
C38_EarlierReceiverEvent == EventHandled /\ last.ev.type \in ReceiverKinds /\ last.bounds.ok /\ pre.first_event_time # NullTicks /\ first_event_time_ < pre.first_event_time /\ first_event_time_ = last.ev.timestamp - 3000 /\ last_event_time_ = pre.last_event_time /\ first_event_time_ < last_event_time_

\* the last call was a capture-begin event for a frame that is cached
CaptureBeginForCachedFrame == FrameEventHandled /\ last.ev.type = FRAME_CAPTURE_BEGIN /\ last.ev.rtp_timestamp \in DOMAIN pre.recent_frame_infos

\* C39: a capture-begin event for a frame that is cached leaves the entry in
\* the cache with its capture_time, capture_end_time and encode_time as they
\* were; and no event changes the capture_time of an entry that stays
\* cached, so an entry created by an encoded event never gets one and a
\* second capture-begin does not replace the first capture time.
C39_NoOverwrite ==
  /\ CaptureBeginForCachedFrame =>
       /\ last.ev.rtp_timestamp \in DOMAIN recent_frame_infos_
       /\ recent_frame_infos_[last.ev.rtp_timestamp] = pre.recent_frame_infos[last.ev.rtp_timestamp]
  /\ EventHandled => \A k \in DOMAIN pre.recent_frame_infos \cap DOMAIN recent_frame_infos_ : recent_frame_infos_[k].capture_time = pre.recent_frame_infos[k].capture_time

\* C39 witness: a second capture-begin event for a frame, with another
\* timestamp than the first, left the first capture time in the entry.
C39_SecondCaptureBegin == CaptureBeginForCachedFrame /\ pre.recent_frame_infos[last.ev.rtp_timestamp].capture_time # NullTicks /\ last.ev.timestamp # pre.recent_frame_infos[last.ev.rtp_timestamp].capture_time /\ recent_frame_infos_[last.ev.rtp_timestamp].capture_time = pre.recent_frame_infos[last.ev.rtp_timestamp].capture_time

\* a histogram of the engine was changed by the last call
HistogramChanged(name) == histograms_[name] # pre.histograms[name]

\* C40: a packet event leaves the frame cache and the capture, encode,
\* frame-transmission and playout-delay histograms as they were; a frame
\* event leaves the packet pairing cache, the network-latency total and count
\* and the packet-latency histogram as they were; and an event changes a
\* histogram only if it is of that histogram's kind: capture-end, encoded,
\* packet sent or received, ack-sent, playout.
C40_HistogramIsolation ==
  /\ PacketEventHandled =>
       /\ recent_frame_infos_ = pre.recent_frame_infos
       /\ \A name \in {CAPTURE_LATENCY_MS_HISTO, ENCODE_LATENCY_MS_HISTO, FRAME_LATENCY_MS_HISTO, PLAYOUT_DELAY_MS_HISTO} : ~HistogramChanged(name)
  /\ FrameEventHandled =>
       /\ packet_sent_times_ = pre.packet_sent_times
       /\ total_network_latency_ = pre.total_network_latency
       /\ network_latency_datapoints_ = pre.network_latency_datapoints
       /\ ~HistogramChanged(PACKET_LATENCY_MS_HISTO)
  /\ last.op \in {"OnReceiveFrameEvent", "OnReceivePacketEvent"} =>
       /\ HistogramChanged(CAPTURE_LATENCY_MS_HISTO) => (FrameEventHandled /\ last.ev.type = FRAME_CAPTURE_END)
       /\ HistogramChanged(ENCODE_LATENCY_MS_HISTO) => (FrameEventHandled /\ last.ev.type = FRAME_ENCODED)
       /\ HistogramChanged(PACKET_LATENCY_MS_HISTO) => (PacketEventHandled /\ last.ev.type \in {PACKET_SENT_TO_NETWORK, PACKET_RECEIVED})
       /\ HistogramChanged(FRAME_LATENCY_MS_HISTO) => (FrameEventHandled /\ last.ev.type = FRAME_ACK_SENT)
       /\ HistogramChanged(PLAYOUT_DELAY_MS_HISTO) => (FrameEventHandled /\ last.ev.type = FRAME_PLAYOUT)

\* C40 witness: a packet event completed a pair and added its sample to the
\* packet-latency histogram while a frame was cached and another histogram
\* held a sample.
C40_PairedBesideFrames == PacketEventHandled /\ HistogramChanged(PACKET_LATENCY_MS_HISTO) /\ recent_frame_infos_ # EmptyMap /\ \E name \in HistogramNames \ {PACKET_LATENCY_MS_HISTO} : SampleCount(histograms_[name]) >= 1

====
